---- MODULE Spec2Model ----
(***************************************************************************)
(* A model of file2ofx: the column detector (core/detector.py), the file   *)
(* parser (core/parser.py), the file helpers (utils/file_utils.py) and the *)
(* statement generator (core/ofx_generator.py).                            *)
(*                                                                         *)
(* Text is a sequence of one-character strings, so that lower-casing,      *)
(* trimming, substring search and the regular expressions of the source    *)
(* are computed character by character.  A Python dict is a sequence of    *)
(* [k, v] records with distinct keys: Python dicts keep insertion order    *)
(* and the parser depends on it.                                           *)
(***************************************************************************)
EXTENDS Integers, Sequences, FiniteSets, TLC

VARIABLES
    detected_columns,   \* ColumnDetector.detected_columns of the one detector
    pc,                 \* "call": op(arg) is about to run; "done": it returned
    op,                 \* name of the operation
    arg,                \* its argument
    ret,                \* what it returned (or the error it raised)
    generator,          \* the configuration fields of the one OFXGenerator
    output              \* the destination file: whether it exists, and its content

vars == <<detected_columns, pc, op, arg, ret, generator, output>>

(***************************************************************************)
(* Text helpers: str.lower, str.strip, substring search.                   *)
(***************************************************************************)
UpperChars == <<"A","B","C","D","E","F","G","H","I","J","K","L","M",
                "N","O","P","Q","R","S","T","U","V","W","X","Y","Z">>

LowerChars == <<"a","b","c","d","e","f","g","h","i","j","k","l","m",
                "n","o","p","q","r","s","t","u","v","w","x","y","z">>

Digits == {"0","1","2","3","4","5","6","7","8","9"}

IsUpper(c) == \E i \in 1..Len(UpperChars) : UpperChars[i] = c

IsLower(c) == \E i \in 1..Len(LowerChars) : LowerChars[i] = c

LowerChar(c) ==
    IF IsUpper(c)
    THEN LowerChars[CHOOSE i \in 1..Len(UpperChars) : UpperChars[i] = c]
    ELSE c

lower(s) == [i \in 1..Len(s) |-> LowerChar(s[i])]

IsSpace(c) == c \in {" ", "\t", "\n", "\r"}

RECURSIVE LStrip(_)
LStrip(s) == IF s # <<>> /\ IsSpace(Head(s)) THEN LStrip(Tail(s)) ELSE s

RECURSIVE RStrip(_)
RStrip(s) ==
    IF s # <<>> /\ IsSpace(s[Len(s)]) THEN RStrip(SubSeq(s, 1, Len(s) - 1)) ELSE s

strip(s) == RStrip(LStrip(s))

\* s has p at position i
HasAt(s, p, i) ==
    /\ i >= 1
    /\ i + Len(p) - 1 <= Len(s)
    /\ \A k \in 1..Len(p) : s[i + k - 1] = p[k]

\* "p in s" for strings
Contains(s, p) == \E i \in 1..(Len(s) - Len(p) + 1) : HasAt(s, p, i)

\* Body(value), with the value computed once: what a local variable of the
\* code holds
With(value, Body(_)) == CHOOSE result \in {Body(x) : x \in {value}} : TRUE

\* the concatenation of ss[lo], ..., ss[hi], by halves
RECURSIVE ConcatRange(_, _, _)
ConcatRange(ss, lo, hi) ==
    IF lo > hi THEN <<>>
    ELSE IF lo = hi THEN ss[lo]
    ELSE With((lo + hi) \div 2, LAMBDA mid :
             ConcatRange(ss, lo, mid) \o ConcatRange(ss, mid + 1, hi))

\* "".join(ss)
Concat(ss) == With(ss \o <<>>, LAMBDA parts : ConcatRange(parts, 1, Len(parts)))

(***************************************************************************)
(* Ordered dicts.                                                          *)
(***************************************************************************)
DictKeys(d) == {d[i].k : i \in 1..Len(d)}

DictValues(d) == {d[i].v : i \in 1..Len(d)}

DictHas(d, key) == \E i \in 1..Len(d) : d[i].k = key

DictGet(d, key) == d[CHOOSE i \in 1..Len(d) : d[i].k = key].v

\* d[key] = value: an existing key keeps its position
DictSet(d, key, value) ==
    IF DictHas(d, key)
    THEN [i \in 1..Len(d) |-> IF d[i].k = key THEN [k |-> key, v |-> value] ELSE d[i]]
    ELSE Append(d, [k |-> key, v |-> value])

\* d.update(e)
RECURSIVE DictUpdate(_, _)
DictUpdate(d, e) ==
    IF e = <<>> THEN d ELSE DictUpdate(DictSet(d, Head(e).k, Head(e).v), Tail(e))

UniqueKeys(d) == \A i, j \in 1..Len(d) : d[i].k = d[j].k => i = j

(***************************************************************************)
(* What a fresh conversion starts from: no file at a path, None for an     *)
(* option not given, and the generator as its constructor leaves it.       *)
(***************************************************************************)
NoFile == <<"<no file>">>

NoText == <<"<None>">>

\* the destination before anything is written to it
NoOutput ==
    [exists |-> FALSE, STMTTRN |-> <<>>,
     OFX |-> [tag |-> <<>>, text |-> NoText, children |-> <<>>], lines |-> <<>>]

\* OFXGenerator.__init__
OFXGenerator ==
    [ofx_version |-> <<"1","0","2">>, fi_org |-> NoText, fi_id |-> NoText, account_id |-> NoText,
     account_type |-> <<"C","H","E","C","K","I","N","G">>, currency |-> <<"U","S","D">>]

(***************************************************************************)
(* ColumnDetector: the header patterns.  A pattern is its text and whether *)
(* it is anchored at both ends (^...$).                                    *)
(***************************************************************************)
Pat(t) == [text |-> t, anchored |-> FALSE]

Anchored(t) == [text |-> t, anchored |-> TRUE]

DATE_PATTERNS == <<
    Pat(<<"d","a","t","e">>),
    Pat(<<"t","r","a","n","s","a","c","t","i","o","n","_","d","a","t","e">>),
    Pat(<<"p","o","s","t","_","d","a","t","e">>),
    Pat(<<"v","a","l","u","e","_","d","a","t","e">>),
    Pat(<<"t","i","m","e","s","t","a","m","p">>) >>

AMOUNT_PATTERNS == <<
    Pat(<<"a","m","o","u","n","t">>),
    Pat(<<"v","a","l","u","e">>),
    Pat(<<"s","u","m">>),
    Pat(<<"t","o","t","a","l">>),
    Pat(<<"d","e","b","i","t">>),
    Pat(<<"c","r","e","d","i","t">>),
    Pat(<<"b","a","l","a","n","c","e">>) >>

DESCRIPTION_PATTERNS == <<
    Pat(<<"d","e","s","c","r","i","p","t","i","o","n">>),
    Pat(<<"m","e","m","o">>),
    Pat(<<"n","o","t","e">>),
    Pat(<<"d","e","t","a","i","l","s">>),
    Pat(<<"r","e","f","e","r","e","n","c","e">>),
    Pat(<<"p","a","y","e","e">>),
    Pat(<<"m","e","r","c","h","a","n","t">>),
    Pat(<<"t","r","a","n","s","a","c","t","i","o","n">>) >>

TYPE_PATTERNS == <<
    Anchored(<<"t","y","p","e">>),
    Anchored(<<"c","a","t","e","g","o","r","y">>),
    Anchored(<<"c","l","a","s","s","i","f","i","c","a","t","i","o","n">>),
    Anchored(<<"t","r","a","n","s","a","c","t","i","o","n","_","t","y","p","e">>) >>

\* re.search(pattern, text, re.IGNORECASE) for one pattern.  A text that
\* ends in a newline would also match an anchored pattern before it; no
\* caller passes one, every text is stripped first.
re_search(pattern, text) ==
    IF pattern.anchored
    THEN lower(text) = lower(pattern.text)
    ELSE Contains(lower(text), lower(pattern.text))

_matches_patterns(text, patterns) ==
    \E i \in 1..Len(patterns) : re_search(patterns[i], text)

NoRole == "none"

\* The body of the loop of detect_from_headers with the type group tried
\* after the description group.
HeaderRoleTypeLast(header) ==
    LET header_lower == strip(lower(header)) IN
    IF _matches_patterns(header_lower, DATE_PATTERNS) THEN "date"
    ELSE IF _matches_patterns(header_lower, AMOUNT_PATTERNS) THEN "amount"
    ELSE IF _matches_patterns(header_lower, DESCRIPTION_PATTERNS) THEN "description"
    ELSE IF _matches_patterns(header_lower, TYPE_PATTERNS) THEN "type"
    ELSE NoRole

\* The body of the loop of detect_from_headers: the role one header gets,
\* NoRole when the loop leaves the header out of the dict.
HeaderRole(header) ==
    LET header_lower == strip(lower(header)) IN
    IF _matches_patterns(header_lower, DATE_PATTERNS) THEN "date"
    ELSE IF _matches_patterns(header_lower, AMOUNT_PATTERNS) THEN "amount"
    ELSE IF _matches_patterns(header_lower, TYPE_PATTERNS) THEN "type"
    ELSE IF _matches_patterns(header_lower, DESCRIPTION_PATTERNS) THEN "description"
    ELSE NoRole

\* detect_from_headers: the dict it builds and returns
RECURSIVE HeaderLoop(_, _)
HeaderLoop(headers, detected) ==
    IF headers = <<>> THEN detected
    ELSE LET header == Head(headers)
             role == HeaderRole(header)
         IN HeaderLoop(Tail(headers),
                       IF role = NoRole THEN detected
                       ELSE DictSet(detected, header, role))

detect_from_headers(headers) == HeaderLoop(headers, <<>>)

(***************************************************************************)
(* datetime.strptime.  A format is a sequence of directives ("%Y"),        *)
(* literal characters and blanks.  Python turns the format into a regular  *)
(* expression in which every directive is an ordered alternation, a blank  *)
(* is \s+, and the whole string must match; the first match in the regular *)
(* expression's priority order is then checked to be a calendar date.      *)
(***************************************************************************)
DigitSeq == <<"0","1","2","3","4","5","6","7","8","9">>

DigitVal(c) == (CHOOSE i \in 1..10 : DigitSeq[i] = c) - 1

D19 == Digits \ {"0"}

\* The alternatives of each directive, in the order the expression tries them
Alternatives(directive) ==
    CASE directive = "%Y" -> << <<Digits, Digits, Digits, Digits>> >>
      [] directive = "%m" -> << <<{"1"}, {"0","1","2"}>>, <<{"0"}, D19>>, <<D19>> >>
      [] directive = "%d" -> << <<{"3"}, {"0","1"}>>, <<{"1","2"}, Digits>>,
                                <<{"0"}, D19>>, <<D19>>, <<{" "}, D19>> >>
      [] directive = "%H" -> << <<{"2"}, {"0","1","2","3"}>>, <<{"0","1"}, Digits>>,
                                <<Digits>> >>
      [] directive = "%M" -> << <<{"0","1","2","3","4","5"}, Digits>>, <<Digits>> >>
      [] directive = "%S" -> << <<{"6"}, {"0","1"}>>,
                                <<{"0","1","2","3","4","5"}, Digits>>, <<Digits>> >>

IsDirective(t) == t \in {"%Y", "%m", "%d", "%H", "%M", "%S"}

ShapeAt(shape, s, pos) ==
    /\ pos + Len(shape) - 1 <= Len(s)
    /\ \A k \in 1..Len(shape) : s[pos + k - 1] \in shape[k]

\* int() of the text a directive matched (a blank before a day is skipped)
RECURSIVE NumberOf(_, _)
NumberOf(s, acc) ==
    IF s = <<>> THEN acc
    ELSE IF Head(s) \in Digits THEN NumberOf(Tail(s), 10 * acc + DigitVal(Head(s)))
    ELSE NumberOf(Tail(s), acc)

NoMatch == [ok |-> FALSE]

NoFields == [ok |-> TRUE, Y |-> 1900, m |-> 1, d |-> 1, H |-> 0, M |-> 0, S |-> 0]

SetField(fields, directive, n) ==
    CASE directive = "%Y" -> [fields EXCEPT !.Y = n]
      [] directive = "%m" -> [fields EXCEPT !.m = n]
      [] directive = "%d" -> [fields EXCEPT !.d = n]
      [] directive = "%H" -> [fields EXCEPT !.H = n]
      [] directive = "%M" -> [fields EXCEPT !.M = n]
      [] directive = "%S" -> [fields EXCEPT !.S = n]

RECURSIVE StrpFrom(_, _, _, _, _)
RECURSIVE StrpAlts(_, _, _, _, _, _)
RECURSIVE StrpBlanks(_, _, _, _, _, _)

\* match fmt[i..] against s[pos..]
StrpFrom(fmt, i, s, pos, fields) ==
    IF i > Len(fmt) THEN (IF pos = Len(s) + 1 THEN fields ELSE NoMatch)
    ELSE IF IsDirective(fmt[i]) THEN StrpAlts(fmt, i, s, pos, fields, 1)
    ELSE IF fmt[i] = " " THEN
        LET run == CHOOSE n \in 0..Len(s) :
                       /\ \A k \in 0..(n - 1) : pos + k <= Len(s) /\ IsSpace(s[pos + k])
                       /\ ~(pos + n <= Len(s) /\ IsSpace(s[pos + n]))
        IN StrpBlanks(fmt, i, s, pos, fields, run)
    ELSE IF pos <= Len(s) /\ LowerChar(s[pos]) = LowerChar(fmt[i])
         THEN StrpFrom(fmt, i + 1, s, pos + 1, fields)
         ELSE NoMatch

\* the k-th and later alternatives of directive fmt[i]
StrpAlts(fmt, i, s, pos, fields, k) ==
    LET alts == Alternatives(fmt[i]) IN
    IF k > Len(alts) THEN NoMatch
    ELSE IF ShapeAt(alts[k], s, pos)
         THEN LET n == Len(alts[k])
                  value == NumberOf(SubSeq(s, pos, pos + n - 1), 0)
                  rest == StrpFrom(fmt, i + 1, s, pos + n, SetField(fields, fmt[i], value))
              IN IF rest.ok THEN rest ELSE StrpAlts(fmt, i, s, pos, fields, k + 1)
         ELSE StrpAlts(fmt, i, s, pos, fields, k + 1)

\* \s+ : the longest run of blanks first, then shorter ones
StrpBlanks(fmt, i, s, pos, fields, n) ==
    IF n < 1 THEN NoMatch
    ELSE LET rest == StrpFrom(fmt, i + 1, s, pos + n, fields)
         IN IF rest.ok THEN rest ELSE StrpBlanks(fmt, i, s, pos, fields, n - 1)

IsLeap(y) == (y % 4 = 0 /\ y % 100 # 0) \/ y % 400 = 0

DaysInMonth(y, m) ==
    IF m = 2 THEN (IF IsLeap(y) THEN 29 ELSE 28)
    ELSE IF m \in {4, 6, 9, 11} THEN 30 ELSE 31

\* datetime.strptime(text, fmt): [ok |-> FALSE] stands for ValueError
strptime(text, fmt) ==
    LET found == StrpFrom(fmt, 1, text, 1, NoFields) IN
    IF ~found.ok THEN NoMatch
    ELSE IF /\ found.Y >= 1
            /\ found.d <= DaysInMonth(found.Y, found.m)
            /\ found.S <= 59
         THEN found
         ELSE NoMatch

(***************************************************************************)
(* ColumnDetector: the value tests.  A cell is the text str(value) gives,  *)
(* or Null for a missing value (NaN), which dropna removes.                *)
(***************************************************************************)
DATE_FORMATS == <<
    <<"%Y","-","%m","-","%d">>,
    <<"%m","/","%d","/","%Y">>,
    <<"%d","/","%m","/","%Y">>,
    <<"%Y","/","%m","/","%d">>,
    <<"%m","-","%d","-","%Y">>,
    <<"%d","-","%m","-","%Y">>,
    <<"%Y","/","%m","/","%d"," ","%H",":","%M",":","%S">>,
    <<"%m","/","%d","/","%Y"," ","%H",":","%M",":","%S">> >>

\* "\\d" stands for the class \d, any other element for itself
date_patterns == <<
    <<"\\d","\\d","\\d","\\d","\\d","\\d","\\d","\\d">>,
    <<"\\d","\\d","\\d","\\d","\\d","\\d">>,
    <<"\\d","\\d","\\d","\\d","-","\\d","\\d","-","\\d","\\d">>,
    <<"\\d","\\d","/","\\d","\\d","/","\\d","\\d","\\d","\\d">>,
    <<"\\d","\\d","/","\\d","\\d","/","\\d","\\d">> >>

\* re.match(pattern, text): the pattern matches a prefix of the text
re_match(pattern, text) ==
    /\ Len(pattern) <= Len(text)
    /\ \A k \in 1..Len(pattern) :
           IF pattern[k] = "\\d" THEN text[k] \in Digits ELSE text[k] = pattern[k]

_is_date_value(value) ==
    \/ \E i \in 1..Len(date_patterns) : re_match(date_patterns[i], strip(value))
    \/ \E i \in 1..Len(DATE_FORMATS) : strptime(strip(value), DATE_FORMATS[i]).ok

\* The characters of [$...] in _is_amount_value; the symbols other than the
\* dollar sign are written by name.
CurrencySymbols == {"$", "EURO", "POUND", "YEN", "RUPEE", "RUBLE", "BITCOIN"}

\* re.sub(r"[...]", "", text)
RemoveChars(text, chars) == SelectSeq(text, LAMBDA c : c \notin chars)

\* "$" at the end of a pattern: the end of the text, or just before a final
\* newline.  r is what is left of the text.
AtEnd(r) == r = <<>> \/ r = <<"\n">>

DropMinus(t) == IF t # <<>> /\ Head(t) = "-" THEN Tail(t) ELSE t

\* the length of the run of digits t starts with
RECURSIVE DigitRun(_)
DigitRun(t) == IF t # <<>> /\ Head(t) \in Digits THEN 1 + DigitRun(Tail(t)) ELSE 0

Drop(t, n) == SubSeq(t, n + 1, Len(t))

\* ^-?\d+\.?\d*$
BasicNumber(t) ==
    LET u == DropMinus(t)
        n == DigitRun(u)
        v == Drop(u, n)
        w == IF v # <<>> /\ Head(v) = "." THEN Tail(v) ELSE v
    IN n >= 1 /\ AtEnd(Drop(w, DigitRun(w)))

\* (,\d{3})* followed by (\.\d{2})?$
RECURSIVE GroupsThenCents(_)
GroupsThenCents(v) ==
    \/ AtEnd(v)
    \/ /\ Len(v) >= 3
       /\ v[1] = "." /\ v[2] \in Digits /\ v[3] \in Digits
       /\ AtEnd(Drop(v, 3))
    \/ /\ Len(v) >= 4
       /\ v[1] = "," /\ v[2] \in Digits /\ v[3] \in Digits /\ v[4] \in Digits
       /\ GroupsThenCents(Drop(v, 4))

\* ^-?\d{1,3}(,\d{3})*(\.\d{2})?$
ThousandsNumber(t) ==
    LET u == DropMinus(t) IN
    \E n \in 1..3 : n <= DigitRun(u) /\ GroupsThenCents(Drop(u, n))

\* ^-?\d+\.\d{2}$
CentsNumber(t) ==
    LET u == DropMinus(t)
        n == DigitRun(u)
        v == Drop(u, n)
    IN /\ n >= 1
       /\ Len(v) >= 3
       /\ v[1] = "." /\ v[2] \in Digits /\ v[3] \in Digits
       /\ AtEnd(Drop(v, 3))

\* _is_amount_value without its first pattern
AmountWithoutBasicNumber(value) ==
    LET cleaned == RemoveChars(strip(value), CurrencySymbols) IN
    ThousandsNumber(cleaned) \/ CentsNumber(cleaned)

_is_amount_value(value) ==
    LET cleaned == RemoveChars(strip(value), CurrencySymbols) IN
    BasicNumber(cleaned) \/ ThousandsNumber(cleaned) \/ CentsNumber(cleaned)

Punctuation == {".", ",", "!", "?", ";", ":"}

\* _is_description_value measuring the value as given
DescriptionOfUntrimmedLength(value) ==
    IF value = <<>> \/ Len(value) < 3 THEN FALSE
    ELSE IF _is_amount_value(value) \/ _is_date_value(value) THEN FALSE
    ELSE LET has_mixed_case == /\ \E i \in 1..Len(value) : IsUpper(value[i])
                               /\ \E i \in 1..Len(value) : IsLower(value[i])
             has_punctuation == \E i \in 1..Len(value) : value[i] \in Punctuation
         IN has_mixed_case \/ has_punctuation

_is_description_value(value) ==
    IF value = <<>> \/ Len(strip(value)) < 3 THEN FALSE
    ELSE IF _is_amount_value(value) \/ _is_date_value(value) THEN FALSE
    ELSE LET has_mixed_case == /\ \E i \in 1..Len(value) : IsUpper(value[i])
                               /\ \E i \in 1..Len(value) : IsLower(value[i])
             has_punctuation == \E i \in 1..Len(value) : value[i] \in Punctuation
         IN has_mixed_case \/ has_punctuation

type_values == {
    <<"d","e","b","i","t">>,
    <<"c","r","e","d","i","t">>,
    <<"d","e","p","o","s","i","t">>,
    <<"w","i","t","h","d","r","a","w","a","l">>,
    <<"t","r","a","n","s","f","e","r">>,
    <<"p","a","y","m","e","n","t">>,
    <<"p","u","r","c","h","a","s","e">>,
    <<"r","e","f","u","n","d">>,
    <<"f","e","e">>,
    <<"i","n","t","e","r","e","s","t">>,
    <<"a","t","m">>,
    <<"c","h","e","c","k">>,
    <<"a","c","h">>,
    <<"w","i","r","e">>,
    <<"p","o","s">> }

\* the test inside the loop of _is_type_column
IsTypeValue(value) == strip(lower(value)) \in type_values

(***************************************************************************)
(* ColumnDetector: the column tests and detect_from_data.                  *)
(* A Series is a sequence of cells; a DataFrame is its column names and,   *)
(* in the same order, one Series of the same length per column.            *)
(***************************************************************************)
Null == <<"<NA>">>

\* The cell texts the inputs below are made of
c_date == <<"2","0","2","3","-","0","1","-","0","1">>

c_amount == <<"1","0","0",".","0","0">>

c_description == <<"G","a","s"," ","s","t","a","t","i","o","n">>

c_type == <<"d","e","b","i","t">>

c_other == <<"x","y","z">>

c_blank == <<" ">>

c_number == <<"2","0","2","3","0","1","0","5">>

CellTexts == {c_date, c_amount, c_description, c_type, c_other, c_blank, c_number}

\* The value tests on the cell texts, computed once
DateTexts == {v \in CellTexts : _is_date_value(v)}

AmountTexts == {v \in CellTexts : _is_amount_value(v)}

DescriptionTexts == {v \in CellTexts : _is_description_value(v)}

TypeTexts == {v \in CellTexts : IsTypeValue(v)}

IsDate(v) == IF v \in CellTexts THEN v \in DateTexts ELSE _is_date_value(v)

IsAmount(v) == IF v \in CellTexts THEN v \in AmountTexts ELSE _is_amount_value(v)

IsDescription(v) ==
    IF v \in CellTexts THEN v \in DescriptionTexts ELSE _is_description_value(v)

IsType(v) == IF v \in CellTexts THEN v \in TypeTexts ELSE IsTypeValue(v)

\* series.dropna()
dropna(series) == SelectSeq(series, LAMBDA v : v # Null)

\* series.head(n)
head(series, n) == SubSeq(series, 1, IF Len(series) < n THEN Len(series) ELSE n)

SampleSize == 100

\* The thresholds 0.7, 0.6, 0.5 and 0.3, in percent
DateThreshold == 70

AmountThreshold == 60

DescriptionThreshold == 50

TypeThreshold == 30

\* the number of values of the sample that pass a test
Passing(sample, Test(_)) == Cardinality({i \in 1..Len(sample) : Test(sample[i])})

\* count / total > percent / 100.  Python compares the float count / total
\* with the float literal; the quotient is correctly rounded, so it exceeds
\* the literal exactly when the fraction exceeds the percentage.
MoreThan(count, total, percent) == total > 0 /\ 100 * count > percent * total

\* count / total >= percent / 100
AtLeast(count, total, percent) == total > 0 /\ 100 * count >= percent * total

\* _is_date_column with >= in place of >
IsDateColumnAtLeast(series) ==
    LET sample == head(series, SampleSize) IN
    AtLeast(Passing(sample, IsDate), Len(sample), DateThreshold)

_is_date_column(series) ==
    LET sample == head(series, SampleSize) IN
    MoreThan(Passing(sample, IsDate), Len(sample), DateThreshold)

_is_amount_column(series) ==
    LET sample == head(series, SampleSize) IN
    MoreThan(Passing(sample, IsAmount), Len(sample), AmountThreshold)

_is_description_column(series) ==
    LET sample == head(series, SampleSize) IN
    MoreThan(Passing(sample, IsDescription), Len(sample), DescriptionThreshold)

_is_type_column(series) ==
    LET sample == head(series, SampleSize) IN
    MoreThan(Passing(sample, IsType), Len(sample), TypeThreshold)

_analyze_column_data(series) ==
    LET non_null_series == dropna(series) IN
    IF Len(non_null_series) = 0 THEN NoRole
    ELSE IF _is_date_column(non_null_series) THEN "date"
    ELSE IF _is_amount_column(non_null_series) THEN "amount"
    ELSE IF _is_description_column(non_null_series) THEN "description"
    ELSE IF _is_type_column(non_null_series) THEN "type"
    ELSE NoRole

\* df[column]
Column(df, column) ==
    df.data[CHOOSE i \in 1..Len(df.columns) : df.columns[i] = column]

\* len(df)
Rows(df) == IF df.data = <<>> THEN 0 ELSE Len(df.data[1])

\* detect_from_data: the loop over df.columns from the i-th column on;
\* known is self.detected_columns
RECURSIVE DataLoop(_, _, _, _)
DataLoop(df, known, i, detected) ==
    IF i > Len(df.columns) THEN detected
    ELSE LET column == df.columns[i] IN
         IF DictHas(known, column)
         THEN DataLoop(df, known, i + 1, DictSet(detected, column, DictGet(known, column)))
         ELSE LET column_type == _analyze_column_data(Column(df, column)) IN
              DataLoop(df, known, i + 1,
                       IF column_type = NoRole THEN detected
                       ELSE DictSet(detected, column, column_type))

\* detect_from_data that analyses every column, also one that has a role
DetectFromDataNoSkip(df, known) == DataLoop(df, <<>>, 1, <<>>)

detect_from_data(df, known) == DataLoop(df, known, 1, <<>>)

\* get_required_columns
get_required_columns == <<"date", "amount", "description">>

\* validate_detected_columns: (is_valid, missing)
validate_detected_columns(detected) ==
    LET required == get_required_columns
        detected_types == DictValues(detected)
        missing == SelectSeq(required, LAMBDA col : col \notin detected_types)
    IN [is_valid |-> Len(missing) = 0, missing |-> missing]

(***************************************************************************)
(* Header inputs: every concatenation of at most MaxHeaderTokens tokens,   *)
(* and the header lists of tests/test_detector.py.                         *)
(***************************************************************************)
MaxHeaderTokens == 3

HeaderTokens == {
    <<"D","a","t","e">>,
    <<"T","r","a","n","s","a","c","t","i","o","n">>,
    <<"T","y","p","e">>,
    <<"_">>,
    <<" ">>,
    <<"A","m","o","u","n","t">>,
    <<"D","e","b","i","t">>,
    <<"C","r","e","d","i","t">>,
    <<"M","e","m","o">>,
    <<"I","D">> }

RECURSIVE TokenStrings(_)
TokenStrings(n) ==
    IF n = 0 THEN {<<>>}
    ELSE LET shorter == TokenStrings(n - 1)
         IN shorter \cup {s \o t : s \in shorter, t \in HeaderTokens}

HeaderStrings == TokenStrings(MaxHeaderTokens) \ {<<>>}

TestDateHeaders == <<
    <<"D","a","t","e">>,
    <<"T","r","a","n","s","a","c","t","i","o","n","_","D","a","t","e">>,
    <<"P","o","s","t","_","D","a","t","e">>,
    <<"V","a","l","u","e","_","D","a","t","e">> >>

TestAmountHeaders == <<
    <<"A","m","o","u","n","t">>,
    <<"V","a","l","u","e">>,
    <<"S","u","m">>,
    <<"T","o","t","a","l">>,
    <<"D","e","b","i","t">>,
    <<"C","r","e","d","i","t">> >>

TestDescriptionHeaders == <<
    <<"D","e","s","c","r","i","p","t","i","o","n">>,
    <<"M","e","m","o">>,
    <<"N","o","t","e">>,
    <<"D","e","t","a","i","l","s">>,
    <<"R","e","f","e","r","e","n","c","e">> >>

TestTypeHeaders == <<
    <<"T","y","p","e">>,
    <<"C","a","t","e","g","o","r","y">>,
    <<"C","l","a","s","s","i","f","i","c","a","t","i","o","n">>,
    <<"T","r","a","n","s","a","c","t","i","o","n","_","T","y","p","e">> >>

\* A statement export with a posting date, a type and an id column
MixedHeaders == <<
    <<"P","o","s","t","_","D","a","t","e">>,
    <<"T","r","a","n","s","a","c","t","i","o","n","_","T","y","p","e">>,
    <<" ","M","e","m","o"," ">>,
    <<"A","c","c","o","u","n","t"," ","I","D">>,
    <<"D","e","b","i","t">>,
    <<"C","r","e","d","i","t">>,
    <<"B","a","l","a","n","c","e">> >>

TestHeaderLists ==
    {TestDateHeaders, TestAmountHeaders, TestDescriptionHeaders, TestTypeHeaders,
     MixedHeaders}

HeaderLists == {<<h>> : h \in HeaderStrings} \cup TestHeaderLists

(***************************************************************************)
(* The operations of the detector as actions.  A behaviour starts with a   *)
(* call about to run on a freshly constructed detector.                    *)
(***************************************************************************)
Calling(name) == pc = "call" /\ op = name

Returned(name) == pc = "done" /\ op = name

\* ColumnDetector.detect_from_headers(headers)
DetectFromHeaders ==
    LET detected == detect_from_headers(arg) IN
    /\ Calling("detect_from_headers")
    /\ detected_columns' = detected
    /\ ret' = detected
    /\ pc' = "done"
    /\ UNCHANGED <<op, arg, generator, output>>

InitHeaders ==
    /\ generator = OFXGenerator
    /\ output = NoOutput
    /\ detected_columns = <<>>
    /\ pc = "call"
    /\ op = "detect_from_headers"
    /\ arg \in HeaderLists
    /\ ret = <<>>

HeadersNext == DetectFromHeaders

SpecHeaders == InitHeaders /\ [][HeadersNext]_vars

(***************************************************************************)
(* Detector inputs: columns made of at most MaxRuns runs of one cell each, *)
(* small two-column tables, and role assignments to validate.              *)
(***************************************************************************)
MaxRuns == 2

RunLengths == {1, 2, 3, 7, 30, 70, 100}

Cells == {Null, c_date, c_amount, c_description, c_type, c_other}

Rep(v, n) == [i \in 1..n |-> v]

RECURSIVE RunSeries(_)
RunSeries(n) ==
    IF n = 0 THEN {<<>>}
    ELSE LET shorter == RunSeries(n - 1)
         IN shorter \cup {s \o Rep(v, k) : s \in shorter, v \in Cells, k \in RunLengths}

n_col1 == <<"c","o","l","1">>

n_date == <<"D","a","t","e">>

n_memo == <<"M","e","m","o">>

n_ref == <<"R","e","f">>

OneColumnFrames ==
    {[columns |-> <<n_col1>>, data |-> <<s>>] : s \in RunSeries(MaxRuns) \ {<<>>}}

\* three rows, as in the tables of tests/test_detector.py
ShortSeries ==
    {Rep(v, 3) : v \in Cells \ {Null}} \cup {<<Null, c_date, c_amount>>}

TwoColumnFrames ==
    {[columns |-> names, data |-> <<s, t>>] :
        names \in {<<n_date, n_memo>>, <<n_date, n_ref>>, <<n_ref, n_memo>>},
        s \in ShortSeries, t \in ShortSeries}

TableHeaderLists == {<<n_date, n_memo>>, <<n_ref, n_date>>, <<n_ref>>}

Roles == {"date", "amount", "debit", "credit", "description", "type"}

\* every assignment of roles to some of three columns
Assignments ==
    LET names == <<n_col1, n_date, n_memo>>
        choices == [1..3 -> Roles \cup {NoRole}]
    IN {SelectSeq([j \in 1..3 |-> [k |-> names[j], v |-> c[j]]],
                  LAMBDA e : e.v # NoRole) : c \in choices}

(***************************************************************************)
(* The detector on its own: one call on a fresh detector, and after a      *)
(* detect_from_headers a detect_from_data on the same detector.            *)
(***************************************************************************)
\* ColumnDetector.detect_from_data(df)
DetectFromData ==
    /\ Calling("detect_from_data")
    /\ ret' = detect_from_data(arg, detected_columns)
    /\ pc' = "done"
    /\ UNCHANGED <<detected_columns, op, arg, generator, output>>

\* ColumnDetector.validate_detected_columns(detected)
ValidateDetectedColumns ==
    /\ Calling("validate_detected_columns")
    /\ ret' = validate_detected_columns(arg)
    /\ pc' = "done"
    /\ UNCHANGED <<detected_columns, op, arg, generator, output>>

\* the caller goes on to the data pass with a table
CallDetectFromData ==
    /\ Returned("detect_from_headers")
    /\ pc' = "call"
    /\ op' = "detect_from_data"
    /\ arg' \in TwoColumnFrames
    /\ UNCHANGED <<detected_columns, ret, generator, output>>

InitDetector ==
    /\ generator = OFXGenerator
    /\ output = NoOutput
    /\ detected_columns = <<>>
    /\ pc = "call"
    /\ ret = <<>>
    /\ \/ op = "detect_from_headers" /\ arg \in TableHeaderLists
       \/ op = "detect_from_data" /\ arg \in OneColumnFrames \cup TwoColumnFrames
       \/ op = "validate_detected_columns" /\ arg \in Assignments

DetectorNext ==
    \/ DetectFromHeaders
    \/ DetectFromData
    \/ ValidateDetectedColumns
    \/ CallDetectFromData

SpecDetector == InitDetector /\ [][DetectorNext]_vars

(***************************************************************************)
(* Files and pandas.read_csv.  A file is its directory and suffix, whether *)
(* it exists, its lines as stored (a line ends with "\n" unless it is the  *)
(* last line of a file without a final newline) and the content of the     *)
(* companion .cols file, NoFile when there is none.  read_csv is modelled  *)
(* on unquoted text: it drops the line ends and the empty lines, cuts each *)
(* line at the delimiter, turns the NA texts into Null and a column of     *)
(* numbers into numbers, so that str(value) no longer is the stored text.  *)
(***************************************************************************)
\* str(n) for a natural number
RECURSIVE Decimal(_)
Decimal(n) == IF n < 10 THEN <<DigitSeq[n + 1]>> ELSE Append(Decimal(n \div 10), DigitSeq[(n % 10) + 1])

\* The label pandas gives the k-th column when there is no header: the
\* integer k, which is no text
IntLabel(k) == <<"int">> \o Decimal(k)

\* str.split(sep), from the text s on; current is the part being read
RECURSIVE SplitFrom(_, _, _)
SplitFrom(s, sep, current) ==
    IF s = <<>> THEN <<current>>
    ELSE IF HasAt(s, sep, 1)
         THEN <<current>> \o SplitFrom(Drop(s, Len(sep)), sep, <<>>)
         ELSE SplitFrom(Tail(s), sep, Append(current, Head(s)))

split(s, sep) == SplitFrom(s, sep, <<>>)

\* sep.join(parts)
RECURSIVE join(_, _)
join(parts, sep) ==
    IF parts = <<>> THEN <<>>
    ELSE IF Len(parts) = 1 THEN parts[1]
    ELSE parts[1] \o sep \o join(Tail(parts), sep)

\* a line without its line end
StripEol(line) ==
    LET a == IF line # <<>> /\ line[Len(line)] = "\n" THEN SubSeq(line, 1, Len(line) - 1) ELSE line
    IN IF a # <<>> /\ a[Len(a)] = "\r" THEN SubSeq(a, 1, Len(a) - 1) ELSE a

\* the records read_csv tokenizes (skip_blank_lines=True)
DataLines(lines) ==
    SelectSeq([i \in 1..Len(lines) |-> StripEol(lines[i])], LAMBDA l : l # <<>>)

\* the default na_values of read_csv
NaTexts == {<<>>, <<"#","N","/","A">>, <<"#","N","/","A"," ","N","/","A">>, <<"#","N","A">>, <<"-","1",".","#","I","N","D">>, <<"-","1",".","#","Q","N","A","N">>, <<"-","N","a","N">>,
            <<"-","n","a","n">>, <<"1",".","#","I","N","D">>, <<"1",".","#","Q","N","A","N">>, <<"<","N","A",">">>, <<"N","/","A">>, <<"N","A">>, <<"N","U","L","L">>,
            <<"N","a","N">>, <<"N","o","n","e">>, <<"n","/","a">>, <<"n","a","n">>, <<"n","u","l","l">>}

\* -?\d+ : a field read_csv converts to an integer
IsIntText(t) ==
    LET u == DropMinus(t) IN u # <<>> /\ DigitRun(u) = Len(u)

\* -?\d+\.\d+ : a field read_csv converts to a float
IsFloatText(t) ==
    LET u == DropMinus(t)
        n == DigitRun(u)
        v == Drop(u, n)
    IN n >= 1 /\ Len(v) >= 2 /\ v[1] = "." /\ DigitRun(Tail(v)) = Len(v) - 1

RECURSIVE DropLeadingZeros(_)
DropLeadingZeros(digits) ==
    IF Len(digits) > 1 /\ Head(digits) = "0" THEN DropLeadingZeros(Tail(digits)) ELSE digits

RECURSIVE DropTrailingZeros(_)
DropTrailingZeros(digits) ==
    IF Len(digits) > 1 /\ digits[Len(digits)] = "0"
    THEN DropTrailingZeros(SubSeq(digits, 1, Len(digits) - 1))
    ELSE digits

\* str(int(t))
IntStr(t) ==
    LET digits == DropLeadingZeros(DropMinus(t)) IN
    IF Head(t) = "-" /\ digits # <<"0">> THEN <<"-">> \o digits ELSE digits

\* str(float(t)) for a number of at most 15 digits written without exponent
FloatStr(t) ==
    LET u == DropMinus(t)
        n == DigitRun(u)
        whole == DropLeadingZeros(SubSeq(u, 1, n))
        fraction == IF n = Len(u) THEN <<"0">> ELSE DropTrailingZeros(Drop(u, n + 1))
    IN (IF Head(t) = "-" THEN <<"-">> ELSE <<>>) \o whole \o <<".">> \o fraction

\* One column as read_csv returns it: the cells are what str(value) gives.
\* fields are the texts of the column, top to bottom.
InferColumn(fields) ==
    LET cells == [i \in 1..Len(fields) |-> IF fields[i] \in NaTexts THEN Null ELSE fields[i]]
        values == dropna(cells)
        ints == \A i \in 1..Len(values) : IsIntText(values[i])
        numbers == \A i \in 1..Len(values) : IsIntText(values[i]) \/ IsFloatText(values[i])
    IN IF values = <<>> THEN cells
       ELSE IF ints /\ Len(values) = Len(cells) THEN [i \in 1..Len(cells) |-> IntStr(cells[i])]
       ELSE IF numbers
            THEN [i \in 1..Len(cells) |-> IF cells[i] = Null THEN Null ELSE FloatStr(cells[i])]
       ELSE cells

\* the fields of each record
Tokenize(lines, delimiter) ==
    LET records == DataLines(lines) IN
    [i \in 1..Len(records) |-> split(records[i], <<delimiter>>)]

\* the j-th field of a record; a short record is filled up with empty fields
Field(record, j) == IF j <= Len(record) THEN record[j] ELSE <<>>

\* A DataFrame of the named columns: column j holds field j + offset of
\* every record
Frame(names, records, offset) ==
    [columns |-> names,
     data |-> [j \in 1..Len(names) |->
                  InferColumn([i \in 1..Len(records) |-> Field(records[i], j + offset)])]]

NoFrame == [columns |-> <<>>, data |-> <<>>]

\* df.empty
empty(df) == Len(df.columns) = 0 \/ Rows(df) = 0

\* header=None, names=None
NoHeader == -1

NoNames == << <<"<no names>">> >>

\* The column names read_csv makes of a header record: an empty field is
\* "Unnamed: j", a repeated name gets the number of its repetition
HeaderName(fields, j) ==
    LET earlier == Cardinality({i \in 1..(j - 1) : fields[i] = fields[j]}) IN
    IF fields[j] = <<>> THEN <<"U","n","n","a","m","e","d",":"," ">> \o Decimal(j - 1)
    ELSE IF earlier = 0 THEN fields[j]
    ELSE fields[j] \o <<".">> \o Decimal(earlier)

\* an exception of the library
LibraryError(kind, message) == [ok |-> FALSE, kind |-> kind, error |-> <<message>>, df |-> NoFrame]

\* read_csv on the tokenized records
ReadRecords(records, header, names) ==
    LET first == IF header = NoHeader THEN 1 ELSE header + 1
        body == IF header = NoHeader THEN records ELSE SubSeq(records, first + 1, Len(records))
        width == Len(records[first])
        expected == IF names # NoNames /\ Len(names) > width THEN Len(names) ELSE width
        columns == IF names # NoNames THEN names
                   ELSE IF header = NoHeader THEN [j \in 1..width |-> IntLabel(j - 1)]
                   ELSE [j \in 1..width |-> HeaderName(records[first], j)]
        \* with more fields than names the leading fields are row labels
        offset == IF names # NoNames /\ width > Len(names) THEN width - Len(names) ELSE 0
    IN IF Len(records) < first
       THEN LibraryError("EmptyDataError", "No columns to parse from file")
       ELSE IF names # NoNames /\ \E i, j \in 1..Len(names) : i # j /\ names[i] = names[j]
       THEN LibraryError("ValueError", "Duplicate names are not allowed.")
       ELSE IF \E i \in 1..Len(body) : Len(body[i]) > expected
       THEN LibraryError("ParserError", "Error tokenizing data. C error: Expected fewer fields")
       ELSE With(body, LAMBDA rows :
                [ok |-> TRUE, kind |-> "", error |-> <<>>, df |-> Frame(columns, rows, offset)])

\* pandas.read_csv(file, delimiter=delimiter, header=header, names=names)
read_csv(lines, delimiter, header, names) ==
    With(Tokenize(lines, delimiter), LAMBDA records : ReadRecords(records, header, names))

\* str(value) of a cell
str(cell) == IF cell = Null THEN <<"n","a","n">> ELSE cell

\* the i-th row of a DataFrame
Row(df, i) == [j \in 1..Len(df.columns) |-> df.data[j][i]]

(***************************************************************************)
(* utils/file_utils.py.  A raised exception is a record with ok = FALSE,   *)
(* the exception's class and the parts of its message, outermost first.    *)
(***************************************************************************)
\* str(file_path)
PathText(file) == file.dir \o <<"/">> \o file.stem \o file.suffix

suspicious_patterns == <<<<".",".">>, <<"~">>, <<"/","e","t","c">>, <<"/","v","a","r">>, <<"/","u","s","r">>, <<"/","b","i","n">>, <<"/","s","b","i","n">>>>

\* validate_file_path: the exception it raises, if any.  The paths of the
\* model are resolved ones, and name regular files.
validate_file_path(file) ==
    IF /\ file.dir # <<>> /\ Head(file.dir) = "/"
       /\ \E i \in 1..Len(suspicious_patterns) : Contains(PathText(file), suspicious_patterns[i])
    THEN [ok |-> FALSE, kind |-> "ValueError", error |-> <<"Unsafe file path: ">>]
    ELSE IF ~file.exists
    THEN [ok |-> FALSE, kind |-> "FileNotFoundError", error |-> <<"File not found: ">>]
    ELSE IF file.lines = <<>>
    THEN [ok |-> FALSE, kind |-> "ValueError", error |-> <<"File is empty: ">>]
    ELSE [ok |-> TRUE, kind |-> "", error |-> <<>>]

\* _parse_csv_line: the loop over the characters from the i-th on
RECURSIVE ParseCsvLineFrom(_, _, _, _, _)
ParseCsvLineFrom(line, i, result, current, in_quotes) ==
    IF i > Len(line) THEN Append(result, strip(current))
    ELSE IF line[i] = "\"" THEN ParseCsvLineFrom(line, i + 1, result, current, ~in_quotes)
    ELSE IF line[i] = "," /\ ~in_quotes
         THEN ParseCsvLineFrom(line, i + 1, Append(result, strip(current)), <<>>, in_quotes)
    ELSE ParseCsvLineFrom(line, i + 1, result, Append(current, line[i]), in_quotes)

_parse_csv_line(line) ==
    IF line = <<>> THEN <<>> ELSE ParseCsvLineFrom(line, 1, <<>>, <<>>, FALSE)

\* read_cols_file: the column names, or the exception
read_cols_file(file) ==
    IF file.cols = NoFile
    THEN [ok |-> FALSE, kind |-> "FileNotFoundError",
          error |-> <<"Column definition file not found: ">>, columns |-> <<>>]
    ELSE LET columns == _parse_csv_line(strip(file.cols)) IN
         IF columns = <<>>
         THEN [ok |-> FALSE, kind |-> "ValueError",
               error |-> <<"Error reading .cols file: ", "No column names found in .cols file">>,
               columns |-> <<>>]
         ELSE [ok |-> TRUE, kind |-> "", error |-> <<>>, columns |-> columns]

\* detect_file_format
detect_file_format(file) ==
    IF lower(file.suffix) = <<".","c","s","v">> THEN "csv"
    ELSE IF lower(file.suffix) = <<".","t","x","t">>
         THEN LET first_line == IF file.lines = <<>> THEN <<>> ELSE strip(file.lines[1])
              IN IF Contains(first_line, <<",">>) THEN "csv" ELSE "txt"
    ELSE "txt"

\* Path.exists in a folder: the files of the folder are records of their
\* path, their lines and the conversion that wrote them
exists(path, folder) == \E f \in folder : f.path = PathText(path)

\* range(1, 100) ends at 99
LastSuffix == 99

\* _generate_unique_filename: the loop from i on
RECURSIVE UniqueFrom(_, _, _)
UniqueFrom(base_file, i, folder) ==
    IF i > LastSuffix
    THEN [ok |-> FALSE, kind |-> "ValueError",
          error |-> <<"Could not generate unique filename for ">>, path |-> base_file]
    ELSE LET candidate == [base_file EXCEPT !.stem = @ \o <<"_">> \o Decimal(i)]
         IN IF ~exists(candidate, folder)
            THEN [ok |-> TRUE, kind |-> "", error |-> <<>>, path |-> candidate]
            ELSE UniqueFrom(base_file, i + 1, folder)

\* _generate_unique_filename, had it started at the suffix 2
UniqueFromSecond(base_file, folder) == UniqueFrom(base_file, 2, folder)

_generate_unique_filename(base_file, folder) == UniqueFrom(base_file, 1, folder)

\* input_file.with_suffix(suffix)
with_suffix(file, suffix) == [dir |-> file.dir, stem |-> file.stem, suffix |-> suffix]

\* get_output_filename: the path, or the exception
get_output_filename(input_file, folder) ==
    IF input_file.stem = <<>>
    THEN [ok |-> FALSE, kind |-> "ValueError",
          error |-> <<"Input file must have a valid name">>, path |-> input_file]
    ELSE LET output_file == with_suffix(input_file, <<".","o","f","x">>)
         IN IF exists(output_file, folder)
            THEN _generate_unique_filename(output_file, folder)
            ELSE [ok |-> TRUE, kind |-> "", error |-> <<>>, path |-> output_file]

(***************************************************************************)
(* core/parser.py.  Every function of the parser takes and gives back the  *)
(* record st of what the call has done so far: known is the detector's     *)
(* detected_columns, steps the detection steps run, in order, header_row   *)
(* the row the header search settled on, header_detected and detected the  *)
(* role assignment after the header pass and at the end, df the table the  *)
(* transactions are made of.  A result is the returned transactions, or    *)
(* the raised exception: its class and the parts of its message.           *)
(***************************************************************************)
NoRow == -1

Fresh(known) ==
    [known |-> known, steps |-> <<>>, format |-> "", header_row |-> NoRow,
     header_detected |-> <<>>, detected |-> <<>>, df |-> NoFrame]

Return(transactions, st) ==
    [ok |-> TRUE, kind |-> "", error |-> <<>>, transactions |-> transactions, st |-> st]

Raise(kind, message, st) ==
    [ok |-> FALSE, kind |-> kind, error |-> message, transactions |-> <<>>, st |-> st]

\* except Exception as e: raise ValueError(f"{prefix}{e}")
Wrap(prefix, result) ==
    IF result.ok THEN result
    ELSE [result EXCEPT !.kind = "ValueError", !.error = <<prefix>> \o result.error]

Step(st, name) == [st EXCEPT !.steps = Append(@, name)]

\* the reverse mapping, had the first column of a type been kept
RECURSIVE TypeToColumnKeepingFirst(_, _)
TypeToColumnKeepingFirst(detected_columns_, type_to_column) ==
    IF detected_columns_ = <<>> THEN type_to_column
    ELSE TypeToColumnKeepingFirst(
             Tail(detected_columns_),
             IF DictHas(type_to_column, Head(detected_columns_).v) THEN type_to_column
             ELSE DictSet(type_to_column, Head(detected_columns_).v, Head(detected_columns_).k))

\* the reverse mapping from type to column name: a later column of a type
\* replaces an earlier one
RECURSIVE TypeToColumn(_, _)
TypeToColumn(detected_columns_, type_to_column) ==
    IF detected_columns_ = <<>> THEN type_to_column
    ELSE TypeToColumn(Tail(detected_columns_),
                      DictSet(type_to_column, Head(detected_columns_).v, Head(detected_columns_).k))

\* the transaction made of the i-th row: the fields from the k-th entry of
\* type_to_column on
RECURSIVE RowFields(_, _, _, _, _)
RowFields(df, i, type_to_column, k, transaction) ==
    IF k > Len(type_to_column) THEN transaction
    ELSE LET col_type == type_to_column[k].k
             col_name == type_to_column[k].v
             present == \E j \in 1..Len(df.columns) : df.columns[j] = col_name
             value == strip(str(Column(df, col_name)[i]))
         IN IF present /\ Column(df, col_name)[i] # Null /\ value # <<>>
            THEN RowFields(df, i, type_to_column, k + 1, DictSet(transaction, col_type, value))
            ELSE RowFields(df, i, type_to_column, k + 1, transaction)

\* _dataframe_to_transactions that keeps every row
AllRowsToTransactions(df, detected) ==
    LET type_to_column == TypeToColumn(detected, <<>>) IN
    [i \in 1..Rows(df) |-> RowFields(df, i, type_to_column, 1, <<>>)]

_dataframe_to_transactions(df, detected) ==
    LET type_to_column == TypeToColumn(detected, <<>>)
        required == get_required_columns
        made == [i \in 1..Rows(df) |-> RowFields(df, i, type_to_column, 1, <<>>)]
    IN SelectSeq(made, LAMBDA transaction :
                     \A f \in 1..Len(required) : DictHas(transaction, required[f]))

\* a cell of the row has 'date' or 'transaction' in its lower-cased text
IsHeaderRow(row) ==
    /\ ~(\A j \in 1..Len(row) : row[j] = Null)
    /\ \E j \in 1..Len(row) :
           \/ Contains(lower(str(row[j])), <<"d","a","t","e">>)
           \/ Contains(lower(str(row[j])), <<"t","r","a","n","s","a","c","t","i","o","n">>)

\* the header search that settles on the last such row
LastHeaderRow(df) ==
    LET found == {i \in 1..Rows(df) : IsHeaderRow(Row(df, i))} IN
    IF found = {} THEN NoRow ELSE (CHOOSE i \in found : \A k \in found : k <= i) - 1

\* the loop that finds header_row: the index of the first such row
FindHeaderRow(df) ==
    LET found == {i \in 1..Rows(df) : IsHeaderRow(Row(df, i))} IN
    IF found = {} THEN NoRow ELSE (CHOOSE i \in found : \A k \in found : i <= k) - 1

\* _parse_csv_file from the validation on
CsvValidate(df, header_detected, detected_columns_, st1) ==
    LET st2 == [(IF Len(header_detected) < 3
                 THEN Step(Step(st1, "detect_from_headers"), "detect_from_data")
                 ELSE Step(st1, "detect_from_headers"))
                EXCEPT !.known = detected_columns_, !.header_detected = header_detected,
                       !.detected = detected_columns_, !.df = df]
        validation == validate_detected_columns(detected_columns_)
    IN IF ~validation.is_valid
       THEN Raise("ValueError", <<"Missing required columns: ">> \o validation.missing, st2)
       ELSE Return(_dataframe_to_transactions(df, detected_columns_), st2)

\* _parse_csv_file from the header pass on
CsvDetect(df, st1) ==
    With(detect_from_headers(df.columns), LAMBDA header_detected :
        With(IF Len(header_detected) < 3
             THEN DictUpdate(header_detected, detect_from_data(df, header_detected))
             ELSE header_detected,
             LAMBDA detected_columns_ : CsvValidate(df, header_detected, detected_columns_, st1)))

\* _parse_csv_file from the second read on
CsvSecondRead(file, header_row, st) ==
    LET st1 == [Step(st, "header_row_search") EXCEPT !.header_row = header_row] IN
    IF header_row = NoRow
    THEN Raise("ValueError", <<"Could not find header row in CSV file">>, st1)
    ELSE With(read_csv(file.lines, ",", header_row, NoNames), LAMBDA second :
             IF ~second.ok THEN Raise(second.kind, second.error, st1)
             ELSE IF empty(second.df)
                  THEN Raise("ValueError", <<"CSV file is empty after header detection">>, st1)
             ELSE CsvDetect(second.df, st1))

_parse_csv_file(file, st) ==
    With(read_csv(file.lines, ",", NoHeader, NoNames), LAMBDA first :
        With(IF ~first.ok THEN Raise(first.kind, first.error, st)
             ELSE IF empty(first.df) THEN Raise("ValueError", <<"CSV file is empty">>, st)
             ELSE With(FindHeaderRow(first.df), LAMBDA header_row :
                      CsvSecondRead(file, header_row, st)),
             LAMBDA result : Wrap("Error parsing CSV file: ", result)))

\* _parse_txt_with_headers from the header pass on
ColsDetect(df, detected_columns_, st) ==
    LET st1 == [Step(st, "detect_from_headers")
                EXCEPT !.known = detected_columns_, !.header_detected = detected_columns_,
                       !.detected = detected_columns_, !.df = df]
        validation == validate_detected_columns(detected_columns_)
    IN IF ~validation.is_valid
       THEN Raise("ValueError", <<"Missing required columns: ">> \o validation.missing, st1)
       ELSE Return(_dataframe_to_transactions(df, detected_columns_), st1)

_parse_txt_with_headers(file, column_names, st) ==
    With(read_csv(file.lines, ",", NoHeader, column_names), LAMBDA read :
        With(IF ~read.ok THEN Raise(read.kind, read.error, st)
             ELSE IF empty(read.df) THEN Raise("ValueError", <<"TXT file is empty">>, st)
             ELSE With(detect_from_headers(column_names), LAMBDA detected_columns_ :
                      ColsDetect(read.df, detected_columns_, st)),
             LAMBDA result : Wrap("Error parsing TXT file with headers: ", result)))

\* line[start:end]
Slice(line, start, end) ==
    SubSeq(line, start + 1, IF end < Len(line) THEN end ELSE Len(line))

\* max(len(line) for line in lines)
LineLength(lines) ==
    LET lens == {Len(lines[k]) : k \in 1..Len(lines)} IN
    CHOOSE n \in lens : \A m \in lens : m <= n

\* _detect_fixed_width_boundaries, first loop: the offsets from i on at
\* which every line has a space
RECURSIVE SpaceLoop(_, _, _, _)
SpaceLoop(lines, i, line_length, boundaries) ==
    IF i >= line_length THEN boundaries
    ELSE IF /\ \A k \in 1..Len(lines) : i < Len(lines[k]) /\ lines[k][i + 1] = " "
            /\ boundaries # <<>>
            /\ i - boundaries[Len(boundaries)][2] > 1
         THEN SpaceLoop(lines, i + 1, line_length,
                        Append(boundaries, <<boundaries[Len(boundaries)][2], i>>))
         ELSE SpaceLoop(lines, i + 1, line_length, boundaries)

\* second loop, over parts[:-1]: one boundary per part
RECURSIVE PartBoundaries(_, _, _)
PartBoundaries(parts, k, current_pos) ==
    IF k >= Len(parts) THEN <<>>
    ELSE LET next_pos == current_pos + Len(parts[k]) + 2 IN
         << <<next_pos - 2, next_pos>> >> \o PartBoundaries(parts, k + 1, next_pos)

_detect_fixed_width_boundaries(lines) ==
    IF Len(lines) < 2 THEN <<>>
    ELSE LET boundaries == SpaceLoop(lines, 1, LineLength(lines), <<>>)
             splits == {k \in 1..Len(lines) : Len(split(lines[k], <<" ", " ">>)) > 1}
             k == CHOOSE n \in splits : \A m \in splits : n <= m
         IN IF boundaries # <<>> THEN boundaries
            ELSE IF splits = {} THEN <<>>
            ELSE PartBoundaries(split(lines[k], <<" ", " ">>), 1, 0)

\* _parse_fixed_width_line: the boundaries from the i-th on (i counts from 0)
RECURSIVE FixedWidthFields(_, _, _, _)
FixedWidthFields(line, boundaries, i, result) ==
    IF i >= Len(boundaries) THEN result
    ELSE LET start == boundaries[i + 1][1]
             end == boundaries[i + 1][2]
             value == strip(Slice(line, start, end))
         IN IF start < Len(line) /\ value # <<>>
            THEN FixedWidthFields(line, boundaries, i + 1,
                                  DictSet(result, <<"c","o","l","_">> \o Decimal(i), value))
            ELSE FixedWidthFields(line, boundaries, i + 1, result)

_parse_fixed_width_line(line, boundaries) == FixedWidthFields(line, boundaries, 0, <<>>)

\* the keys of a list of dicts, in the order of their first appearance
RECURSIVE KeysInOrder(_, _)
KeysInOrder(dicts, keys) ==
    IF dicts = <<>> THEN keys
    ELSE LET more == SelectSeq([e \in 1..Len(Head(dicts)) |-> Head(dicts)[e].k],
                               LAMBDA key : \A j \in 1..Len(keys) : keys[j] # key)
         IN KeysInOrder(Tail(dicts), keys \o more)

\* pd.DataFrame(list of dicts): a key a dict lacks gives an empty cell
DataFrame(dicts) ==
    LET columns == KeysInOrder(dicts, <<>>) IN
    [columns |-> columns,
     data |-> [j \in 1..Len(columns) |->
                  [i \in 1..Len(dicts) |->
                      IF DictHas(dicts[i], columns[j]) THEN DictGet(dicts[i], columns[j])
                      ELSE Null]]]

\* lines[:10]
BoundarySampleLines == 10

\* _parse_fixed_width_txt from the column detection on
FixedWidthDetect(transactions, st1) ==
    With(DataFrame(transactions), LAMBDA df :
        With(detect_from_data(df, st1.known), LAMBDA detected_columns_ :
            LET st2 == [Step(st1, "detect_from_data")
                        EXCEPT !.detected = detected_columns_, !.df = df]
            IN IF validate_detected_columns(detected_columns_).is_valid
               THEN Return(_dataframe_to_transactions(df, detected_columns_), st2)
               ELSE Raise("ValueError",
                          <<"Could not detect required columns in fixed-width file">>, st2)))

\* _parse_fixed_width_txt from the parsing of the lines on
FixedWidthRows(lines, column_boundaries, st1) ==
    With(SelectSeq([i \in 1..Len(lines) |->
                       IF strip(lines[i]) # <<>>
                       THEN _parse_fixed_width_line(lines[i], column_boundaries)
                       ELSE <<>>],
                   LAMBDA row_data : row_data # <<>>),
         LAMBDA transactions :
             IF transactions # <<>> THEN FixedWidthDetect(transactions, st1)
             ELSE Raise("ValueError",
                        <<"Could not detect required columns in fixed-width file">>, st1))

_parse_fixed_width_txt(file, st) ==
    LET lines == file.lines
        st1 == Step(st, "fixed_width")
    IN With(IF lines = <<>> THEN Raise("ValueError", <<"TXT file is empty">>, st)
            ELSE With(_detect_fixed_width_boundaries(head(lines, BoundarySampleLines)),
                      LAMBDA column_boundaries :
                          IF column_boundaries = <<>>
                          THEN Raise("ValueError",
                                     <<"Could not detect fixed-width column boundaries">>, st1)
                          ELSE FixedWidthRows(lines, column_boundaries, st1)),
            LAMBDA result : Wrap("Error parsing fixed-width TXT file: ", result))

\* the delimiters with the semicolon first
DelimitersSemicolonFirst == <<";", ",", "\t", "|">>

delimiters == <<",", "\t", "|", ";">>

\* one attempt of _parse_txt_auto_detect: NoResult when the loop goes on
NoResult == [ok |-> FALSE, kind |-> "continue", error |-> <<>>, transactions |-> <<>>,
             st |-> Fresh(<<>>)]

TryDelimiter(df, st1) ==
    With(detect_from_data(df, st1.known), LAMBDA detected_columns_ :
        LET st2 == [Step(st1, "detect_from_data")
                    EXCEPT !.detected = detected_columns_, !.df = df]
        IN IF validate_detected_columns(detected_columns_).is_valid
           THEN Return(_dataframe_to_transactions(df, detected_columns_), st2)
           ELSE [NoResult EXCEPT !.st = st2])

\* _parse_txt_auto_detect: the loop over the delimiters from the i-th on
RECURSIVE DelimiterLoop(_, _, _)
DelimiterLoop(file, i, st) ==
    IF i > Len(delimiters) THEN _parse_fixed_width_txt(file, st)
    ELSE With(read_csv(file.lines, delimiters[i], NoHeader, NoNames), LAMBDA read :
             With(IF ~read.ok \/ empty(read.df)
                  THEN [NoResult EXCEPT !.st = Step(st, "delimiter")]
                  ELSE TryDelimiter(read.df, Step(st, "delimiter")),
                  LAMBDA attempt :
                      IF attempt.ok THEN attempt
                      ELSE DelimiterLoop(file, i + 1, attempt.st)))

_parse_txt_auto_detect(file, st) ==
    With(DelimiterLoop(file, 1, st), LAMBDA result :
        Wrap("Error parsing TXT file with auto-detection: ", result))

_parse_txt_file(file, st) ==
    With(read_cols_file(file), LAMBDA cols :
        With(IF cols.ok
             THEN _parse_txt_with_headers(file, cols.columns, Step(st, "cols_file"))
             ELSE IF cols.kind = "FileNotFoundError" THEN _parse_txt_auto_detect(file, st)
             ELSE Raise(cols.kind, cols.error, st),
             LAMBDA result : Wrap("Error parsing TXT file: ", result)))

\* FileParser.parse_file(file_path, format) on a parser whose detector holds
\* the assignment known
parse_file(file, format, known) ==
    LET valid == validate_file_path(file)
        resolved == IF format = "auto" THEN detect_file_format(file) ELSE format
        st == [Fresh(known) EXCEPT !.format = resolved]
    IN IF ~valid.ok THEN Raise(valid.kind, valid.error, Fresh(known))
       ELSE IF resolved = "csv" THEN _parse_csv_file(file, st)
       ELSE IF resolved = "txt" THEN _parse_txt_file(file, st)
       ELSE Raise("ValueError", <<"Unsupported file format: ", format>>, st)

(***************************************************************************)
(* core/ofx_generator.py.  Every text of the document is computed as the   *)
(* code computes it, the identifier of a transaction included.             *)
(***************************************************************************)
\* text.replace(old, new) for a character old
replace(text, old, new) ==
    With(text, LAMBDA t :
        Concat([i \in 1..Len(t) |-> IF t[i] = old THEN new ELSE <<t[i]>>]))

NameLimit == 255

_sanitize_text(text) ==
    With(replace(text, "&", <<"&","a","m","p",";">>), LAMBDA a :
    With(replace(a, "<", <<"&","l","t",";">>), LAMBDA b :
    With(replace(b, ">", <<"&","g","t",";">>), LAMBDA c :
    With(replace(c, "\"", <<"&","q","u","o","t",";">>), LAMBDA d :
    With(replace(d, "'", <<"&","a","p","o","s",";">>), LAMBDA sanitized :
        IF Len(sanitized) > NameLimit
        THEN SubSeq(sanitized, 1, NameLimit - 3) \o <<".",".",".">>
        ELSE sanitized)))))

\* hashlib.md5 (RFC 1321).  A 32-bit word is the tuple of its bits, lowest
\* first; sums are taken on the two 16-bit halves of a word.  Ascii lists
\* the characters of codes 32 to 126 ("GRAVE" stands for the grave accent).
Ascii == <<
    " ", "!", "\"", "#", "$", "%", "&", "'", "(", ")", "*", "+", ",", "-", ".", "/",
    "0", "1", "2", "3", "4", "5", "6", "7", "8", "9", ":", ";", "<", "=", ">", "?",
    "@", "A", "B", "C", "D", "E", "F", "G", "H", "I", "J", "K", "L", "M", "N", "O",
    "P", "Q", "R", "S", "T", "U", "V", "W", "X", "Y", "Z", "[", "\\", "]", "^", "_",
    "GRAVE", "a", "b", "c", "d", "e", "f", "g", "h", "i", "j", "k", "l", "m", "n", "o",
    "p", "q", "r", "s", "t", "u", "v", "w", "x", "y", "z", "{", "|", "}", "~" >>

\* text.encode(): the UTF-8 bytes of a character
encode(c) ==
    CASE c = "EURO" -> <<226, 130, 172>>
      [] c = "POUND" -> <<194, 163>>
      [] c = "YEN" -> <<194, 165>>
      [] c = "RUPEE" -> <<226, 130, 185>>
      [] c = "RUBLE" -> <<226, 130, 189>>
      [] c = "BITCOIN" -> <<226, 130, 191>>
      [] c = "\t" -> <<9>>
      [] c = "\n" -> <<10>>
      [] c = "\r" -> <<13>>
      [] OTHER -> <<31 + (CHOOSE i \in 1..Len(Ascii) : Ascii[i] = c)>>

Bytes(text) == With(text, LAMBDA t : Concat([i \in 1..Len(t) |-> encode(t[i])]))

\* the sines table, each constant as its high and low half
md5_K == <<
    <<55146, 42104>>, <<59591, 46934>>, <<9248, 28891>>, <<49597, 52974>>,
    <<62844, 4015>>, <<18311, 50730>>, <<43056, 17939>>, <<64838, 38145>>,
    <<27008, 39128>>, <<35652, 63407>>, <<65535, 23473>>, <<35164, 55230>>,
    <<27536, 4386>>, <<64920, 29075>>, <<42617, 17294>>, <<18868, 2081>>,
    <<63006, 9570>>, <<49216, 45888>>, <<9822, 23121>>, <<59830, 51114>>,
    <<54831, 4189>>, <<580, 5203>>, <<55457, 59009>>, <<59347, 64456>>,
    <<8673, 52710>>, <<49975, 2006>>, <<62677, 3463>>, <<17754, 5357>>,
    <<43491, 59653>>, <<64751, 41976>>, <<26479, 729>>, <<36138, 19594>>,
    <<65530, 14658>>, <<34673, 63105>>, <<28061, 24866>>, <<64997, 14348>>,
    <<42174, 59972>>, <<19422, 53161>>, <<63163, 19296>>, <<48831, 48240>>,
    <<10395, 32454>>, <<60065, 10234>>, <<54511, 12421>>, <<1160, 7429>>,
    <<55764, 53305>>, <<59099, 39397>>, <<8098, 31992>>, <<50348, 22117>>,
    <<62505, 8772>>, <<17194, 65431>>, <<43924, 9127>>, <<64659, 41017>>,
    <<25947, 22979>>, <<36620, 52370>>, <<65519, 62589>>, <<34180, 24017>>,
    <<28584, 32335>>, <<65068, 59104>>, <<41729, 17172>>, <<19976, 4513>>,
    <<63315, 32386>>, <<48442, 62005>>, <<10967, 53947>>, <<60294, 54161>> >>

\* the per-round shift amounts
md5_s == <<
    7, 12, 17, 22, 7, 12, 17, 22, 7, 12, 17, 22, 7, 12, 17, 22,
    5, 9, 14, 20, 5, 9, 14, 20, 5, 9, 14, 20, 5, 9, 14, 20,
    4, 11, 16, 23, 4, 11, 16, 23, 4, 11, 16, 23, 4, 11, 16, 23,
    6, 10, 15, 21, 6, 10, 15, 21, 6, 10, 15, 21, 6, 10, 15, 21 >>

\* the low and the high half of a word of bits
Lo(w) ==
    w[1] + 2 * w[2] + 4 * w[3] + 8 * w[4] + 16 * w[5] + 32 * w[6] + 64 * w[7]
    + 128 * w[8] + 256 * w[9] + 512 * w[10] + 1024 * w[11] + 2048 * w[12]
    + 4096 * w[13] + 8192 * w[14] + 16384 * w[15] + 32768 * w[16]

Hi(w) ==
    w[17] + 2 * w[18] + 4 * w[19] + 8 * w[20] + 16 * w[21] + 32 * w[22] + 64 * w[23]
    + 128 * w[24] + 256 * w[25] + 512 * w[26] + 1024 * w[27] + 2048 * w[28]
    + 4096 * w[29] + 8192 * w[30] + 16384 * w[31] + 32768 * w[32]

\* bit k (from 0) of the word whose halves are hi and lo
BitOf(hi, lo, k) == IF k < 16 THEN (lo \div 2^k) % 2 ELSE (hi \div 2^(k - 16)) % 2

\* the word hi * 2^16 + lo modulo 2^32, rotated left by shift bits
Word(hi, lo, shift) ==
    With((hi + lo \div 65536) % 65536, LAMBDA h :
    With(lo % 65536, LAMBDA l :
        SubSeq([k \in 1..32 |-> BitOf(h, l, (k - 1 - shift + 32) % 32)], 1, 32)))

\* the four round functions, bit by bit (i from 0)
md5_F(i, b, c, d) ==
    IF i < 16 THEN [k \in 1..32 |-> IF b[k] = 1 THEN c[k] ELSE d[k]]
    ELSE IF i < 32 THEN [k \in 1..32 |-> IF d[k] = 1 THEN b[k] ELSE c[k]]
    ELSE IF i < 48 THEN [k \in 1..32 |-> (b[k] + c[k] + d[k]) % 2]
    ELSE [k \in 1..32 |-> (c[k] + (IF b[k] = 1 \/ d[k] = 0 THEN 1 ELSE 0)) % 2]

\* the message word a round takes
md5_g(i) ==
    IF i < 16 THEN i
    ELSE IF i < 32 THEN (5 * i + 1) % 16
    ELSE IF i < 48 THEN (3 * i + 5) % 16
    ELSE (7 * i) % 16

\* one round on the state <<A, B, C, D>> with the message words M
md5_Round(st, i, M) ==
    With(SubSeq(md5_F(i, st[2], st[3], st[4]), 1, 32), LAMBDA f :
    With(Word(Hi(f) + Hi(st[1]) + md5_K[i + 1][1] + M[md5_g(i) + 1][1],
              Lo(f) + Lo(st[1]) + md5_K[i + 1][2] + M[md5_g(i) + 1][2],
              md5_s[i + 1]), LAMBDA r :
        <<st[4], Word(Hi(st[2]) + Hi(r), Lo(st[2]) + Lo(r), 0), st[2], st[3]>>))

\* the rounds i to last
RECURSIVE md5_Rounds(_, _, _, _)
md5_Rounds(st, i, last, M) ==
    IF i > last THEN st
    ELSE With(<<md5_Round(st, i, M), i + 1>>, LAMBDA n : md5_Rounds(n[1], n[2], last, M))

\* one 64-byte block: four times 16 rounds, then the sum with the state before
md5_Block(st, M) ==
    With(md5_Rounds(st, 0, 15, M), LAMBDA r1 :
    With(md5_Rounds(r1, 16, 31, M), LAMBDA r2 :
    With(md5_Rounds(r2, 32, 47, M), LAMBDA r3 :
    With(md5_Rounds(r3, 48, 63, M), LAMBDA r :
        [j \in 1..4 |-> Word(Hi(st[j]) + Hi(r[j]), Lo(st[j]) + Lo(r[j]), 0)] \o <<>>))))

\* the padded message: a 1 bit, zeros, the length in bits on 64 bits
md5_Pad(bytes) ==
    LET n == Len(bytes) IN
    bytes \o <<128>> \o [j \in 1..((55 - (n % 64) + 64) % 64) |-> 0]
          \o [j \in 1..8 |-> IF j <= 3 THEN ((8 * n) \div 256^(j - 1)) % 256 ELSE 0]

\* the 16 little-endian words of block q (from 0) of the padded message
md5_Words(padded, q) ==
    [j \in 1..16 |->
        LET at == 64 * q + 4 * (j - 1) IN
        <<padded[at + 3] + 256 * padded[at + 4], padded[at + 1] + 256 * padded[at + 2]>>]
    \o <<>>

RECURSIVE md5_Blocks(_, _, _)
md5_Blocks(st, padded, q) ==
    IF 64 * q >= Len(padded) THEN st
    ELSE With(md5_Words(padded, q), LAMBDA M :
         With(<<md5_Block(st, M), q + 1>>, LAMBDA n :
             md5_Blocks(n[1], padded, n[2])))

md5_Init == <<Word(26437, 8961, 0), Word(61389, 43913, 0),
              Word(39098, 56574, 0), Word(4146, 21622, 0)>>

\* hashlib.md5(bytes): the state after the last block
md5(bytes) ==
    With(bytes \o <<>>, LAMBDA message :
    With(md5_Pad(message), LAMBDA padded : md5_Blocks(md5_Init, padded, 0)))

HexDigits == <<"0","1","2","3","4","5","6","7","8","9","a","b","c","d","e","f">>

\* hash_obj.hexdigest(): the bytes of A, B, C, D lowest first, two hexadecimal
\* digits each
hexdigest(digest) ==
    Concat([j \in 1..4 |->
        With(<<Lo(digest[j]), Hi(digest[j])>>, LAMBDA h :
            Concat([b \in 1..4 |->
                LET byte == IF b = 1 THEN h[1] % 256
                            ELSE IF b = 2 THEN h[1] \div 256
                            ELSE IF b = 3 THEN h[2] % 256
                            ELSE h[2] \div 256
                IN <<HexDigits[(byte \div 16) + 1], HexDigits[(byte % 16) + 1]>>]))])

HexVal(c) == (CHOOSE i \in 1..16 : HexDigits[i] = c) - 1

\* int(text, 16) of at most 8 hexadecimal digits, as its high and low half
RECURSIVE IntBase16(_, _, _)
IntBase16(text, hi, lo) ==
    IF text = <<>> THEN <<hi, lo>>
    ELSE With(<<Tail(text), (hi * 16 + lo \div 4096) % 65536,
                (lo % 4096) * 16 + HexVal(Head(text))>>, LAMBDA n :
             IntBase16(n[1], n[2], n[3]))

\* str(n) of the number whose halves are n[1] and n[2]
RECURSIVE StrOfHalves(_, _)
StrOfHalves(n, digits) ==
    IF n = <<0, 0>> THEN (IF digits = <<>> THEN <<"0">> ELSE digits)
    ELSE With((n[1] % 10) * 65536 + n[2], LAMBDA t :
         With(<<n[1] \div 10, t \div 10>>, LAMBDA quotient :
         With(<<DigitSeq[(t % 10) + 1]>> \o digits, LAMBDA more :
             StrOfHalves(quotient, more))))

\* text.zfill(width)
zfill(text, width) ==
    [j \in 1..(IF width > Len(text) THEN width - Len(text) ELSE 0) |-> "0"] \o text

\* float(text), as far as its sign: blanks around, a sign, then digits with
\* at most one point and at least one digit, or inf, infinity or nan.
\* Exponents and underscores are left out: no input of the model has them.
\* ok = FALSE stands for ValueError; sign is -1, 0 or 1 (0 for nan, which is
\* neither above nor below zero).
float(text) ==
    LET s == strip(text)
        signed == s # <<>> /\ Head(s) \in {"+", "-"}
        body == IF signed THEN Tail(s) ELSE s
        negative == signed /\ Head(s) = "-"
        whole == DigitRun(body)
        rest == Drop(body, whole)
        fraction == IF rest # <<>> /\ Head(rest) = "." THEN Tail(rest) ELSE rest
        number == /\ DigitRun(fraction) = Len(fraction)
                  /\ whole + Len(fraction) >= 1
        zero == \A i \in 1..Len(body) : body[i] \in {"0", "."}
    IN IF lower(body) \in {<<"i","n","f">>, <<"i","n","f","i","n","i","t","y">>}
       THEN [ok |-> TRUE, sign |-> IF negative THEN -1 ELSE 1]
       ELSE IF lower(body) = <<"n","a","n">> THEN [ok |-> TRUE, sign |-> 0]
       ELSE IF number
            THEN [ok |-> TRUE, sign |-> IF zero THEN 0 ELSE IF negative THEN -1 ELSE 1]
            ELSE [ok |-> FALSE, sign |-> 0]

\* re.sub(r"[$...,]", "", amount): the currency symbols and the commas go
CleanAmount(amount) == RemoveChars(amount, CurrencySymbols \cup {","})

\* transaction.get(key, "0")
GetOrZero(transaction, key) ==
    IF DictHas(transaction, key) THEN DictGet(transaction, key) ELSE <<"0">>

\* float(clean) if clean else 0.0
FloatOrZero(clean) == IF clean = <<>> THEN [ok |-> TRUE, sign |-> 0] ELSE float(clean)

\* the try block on the debit and credit fields: which of the two is used,
\* "" when neither is above zero, "ValueError" when one of them is no number
DebitOrCredit(transaction) ==
    LET debit_float == FloatOrZero(CleanAmount(GetOrZero(transaction, "debit")))
        credit_float == FloatOrZero(CleanAmount(GetOrZero(transaction, "credit")))
    IN IF ~debit_float.ok \/ ~credit_float.ok THEN "ValueError"
       ELSE IF debit_float.sign > 0 THEN "debit"
       ELSE IF credit_float.sign > 0 THEN "credit"
       ELSE ""

type_mapping == <<
    [k |-> <<"d","e","b","i","t">>, v |-> <<"D","E","B","I","T">>],
    [k |-> <<"c","r","e","d","i","t">>, v |-> <<"C","R","E","D","I","T">>],
    [k |-> <<"d","e","p","o","s","i","t">>, v |-> <<"C","R","E","D","I","T">>],
    [k |-> <<"w","i","t","h","d","r","a","w","a","l">>, v |-> <<"D","E","B","I","T">>],
    [k |-> <<"t","r","a","n","s","f","e","r">>, v |-> <<"X","F","E","R">>],
    [k |-> <<"p","a","y","m","e","n","t">>, v |-> <<"D","E","B","I","T">>],
    [k |-> <<"p","u","r","c","h","a","s","e">>, v |-> <<"D","E","B","I","T">>],
    [k |-> <<"r","e","f","u","n","d">>, v |-> <<"C","R","E","D","I","T">>],
    [k |-> <<"f","e","e">>, v |-> <<"D","E","B","I","T">>],
    [k |-> <<"i","n","t","e","r","e","s","t">>, v |-> <<"C","R","E","D","I","T">>] >>

\* the part of _determine_transaction_type after the type field
TypeFromAmounts(transaction) ==
    LET used == DebitOrCredit(transaction) IN
    IF used = "debit" THEN <<"D","E","B","I","T">>
    ELSE IF used = "credit" THEN <<"C","R","E","D","I","T">>
    ELSE IF DictHas(transaction, "amount")
         THEN LET float_amount == float(CleanAmount(DictGet(transaction, "amount")))
              IN IF ~float_amount.ok THEN <<"D","E","B","I","T">>
                 ELSE IF float_amount.sign < 0 THEN <<"D","E","B","I","T">> ELSE <<"C","R","E","D","I","T">>
         ELSE <<"D","E","B","I","T">>

_determine_transaction_type(transaction) ==
    IF /\ DictHas(transaction, "type")
       /\ DictHas(type_mapping, lower(DictGet(transaction, "type")))
    THEN DictGet(type_mapping, lower(DictGet(transaction, "type")))
    ELSE TypeFromAmounts(transaction)

\* _normalize_amount, had it appended the cents to every amount
NormalizeAppendingAlways(amount) ==
    LET clean_amount == RemoveChars(amount, CurrencySymbols \cup {",", " ", "\t", "\n", "\r"})
    IN clean_amount \o <<".","0","0">>

_normalize_amount(amount) ==
    LET clean_amount == RemoveChars(amount, CurrencySymbols \cup {",", " ", "\t", "\n", "\r"})
    IN IF Contains(clean_amount, <<".">>) THEN clean_amount ELSE clean_amount \o <<".","0","0">>

\* the amount TRNAMT is made of
TrnAmt(transaction) ==
    LET used == DebitOrCredit(transaction) IN
    IF used = "debit" THEN _normalize_amount(GetOrZero(transaction, "debit"))
    ELSE IF used = "credit" THEN _normalize_amount(GetOrZero(transaction, "credit"))
    ELSE IF DictHas(transaction, "amount")
         THEN _normalize_amount(DictGet(transaction, "amount"))
         ELSE <<"0",".","0","0">>

\* the amount the identifier is made of
amount_for_id(transaction) ==
    LET used == DebitOrCredit(transaction) IN
    IF used = "debit" THEN GetOrZero(transaction, "debit")
    ELSE IF used = "credit" THEN GetOrZero(transaction, "credit")
    ELSE IF DictHas(transaction, "amount") THEN DictGet(transaction, "amount")
    ELSE <<"0">>

\* the formats _format_ofx_date and _parse_date try, in order
date_formats == <<
    <<"%Y","-","%m","-","%d">>,
    <<"%m","/","%d","/","%Y">>,
    <<"%d","/","%m","/","%Y">>,
    <<"%Y","/","%m","/","%d">>,
    <<"%m","-","%d","-","%Y">>,
    <<"%d","-","%m","-","%Y">>,
    <<"%Y","%m","%d">> >>

\* dt.strftime(fmt): a directive gives its field in decimal, padded with
\* zeros to 4 digits for the year and to 2 for the others
strftime(dt, fmt) ==
    Concat([i \in 1..Len(fmt) |->
        CASE fmt[i] = "%Y" -> zfill(Decimal(dt.Y), 4)
          [] fmt[i] = "%m" -> zfill(Decimal(dt.m), 2)
          [] fmt[i] = "%d" -> zfill(Decimal(dt.d), 2)
          [] fmt[i] = "%H" -> zfill(Decimal(dt.H), 2)
          [] fmt[i] = "%M" -> zfill(Decimal(dt.M), 2)
          [] fmt[i] = "%S" -> zfill(Decimal(dt.S), 2)
          [] OTHER -> <<fmt[i]>>])

\* the loop over the formats, from the i-th on: the first datetime that
\* strptime gives, NoMatch when every format raises ValueError
RECURSIVE TryFormats(_, _)
TryFormats(text, i) ==
    IF i > Len(date_formats) THEN NoMatch
    ELSE With(strptime(text, date_formats[i]), LAMBDA dt :
             IF dt.ok THEN dt ELSE TryFormats(text, i + 1))

\* _parse_date: NoMatch stands for None
_parse_date(date_str) == TryFormats(strip(date_str), 1)

_format_ofx_date(date_str) ==
    With(TryFormats(strip(date_str), 1), LAMBDA dt :
        IF dt.ok THEN strftime(dt, <<"%Y","%m","%d","1","2","0","0","0","0">>)
        ELSE date_str \o <<"1","2","0","0","0","0">>)

\* the parsed dates of the transactions that have a date
parsed_dates(transactions) ==
    LET dates == SelectSeq(transactions, LAMBDA t : DictHas(t, "date"))
        parsed == [i \in 1..Len(dates) |-> _parse_date(DictGet(dates[i], "date"))] \o <<>>
    IN SelectSeq(parsed, LAMBDA dt : dt.ok)

\* the order of datetime values
Before(a, b) ==
    \/ a.Y < b.Y
    \/ a.Y = b.Y /\ a.m < b.m
    \/ a.Y = b.Y /\ a.m = b.m /\ a.d < b.d
    \/ a.Y = b.Y /\ a.m = b.m /\ a.d = b.d
        /\ a.H * 3600 + a.M * 60 + a.S < b.H * 3600 + b.M * 60 + b.S

\* _get_earliest_date, had it taken the first date that parses
EarliestIsFirst(transactions, now) ==
    With(parsed_dates(transactions), LAMBDA parsed :
        IF parsed = <<>> THEN strftime(now, <<"%Y","%m","%d">>)
        ELSE strftime(parsed[1], <<"%Y","%m","%d">>))

_get_earliest_date(transactions, now) ==
    With(parsed_dates(transactions), LAMBDA parsed :
        IF parsed = <<>> THEN strftime(now, <<"%Y","%m","%d">>)
        ELSE strftime(parsed[CHOOSE i \in 1..Len(parsed) :
                                 \A j \in 1..Len(parsed) : ~Before(parsed[j], parsed[i])],
                      <<"%Y","%m","%d">>))

_get_latest_date(transactions, now) ==
    With(parsed_dates(transactions), LAMBDA parsed :
        IF parsed = <<>> THEN strftime(now, <<"%Y","%m","%d">>)
        ELSE strftime(parsed[CHOOSE i \in 1..Len(parsed) :
                                 \A j \in 1..Len(parsed) : ~Before(parsed[i], parsed[j])],
                      <<"%Y","%m","%d">>))

\* the FITID, had the type word of the transaction been hashed with the rest
FitIdOfTypeToo(transaction) ==
    IF DictHas(transaction, "date")
    THEN LET content == DictGet(transaction, "date") \o <<"_">> \o amount_for_id(transaction)
                        \o (IF DictHas(transaction, "description")
                            THEN <<"_">> \o DictGet(transaction, "description")
                            ELSE <<>>)
                        \o (IF DictHas(transaction, "type")
                            THEN <<"_">> \o DictGet(transaction, "type")
                            ELSE <<>>)
         IN With(md5(Bytes(content)), LAMBDA hash_obj :
            With(Slice(hexdigest(hash_obj), 0, 8), LAMBDA hash_hex :
            With(IntBase16(hash_hex, 0, 0), LAMBDA number :
                zfill(Slice(StrOfHalves(number, <<>>), 0, 8), 8))))
    ELSE <<"0","0","0","0","0","0","0","0">>

\* the FITID of a transaction: the first 8 hexadecimal digits of the MD5 of
\* date_amount[_description], read as a number, the first 8 digits of its
\* decimal form, padded with zeros
FitId(transaction) ==
    IF DictHas(transaction, "date")
    THEN LET content == DictGet(transaction, "date") \o <<"_">> \o amount_for_id(transaction)
                        \o (IF DictHas(transaction, "description")
                            THEN <<"_">> \o DictGet(transaction, "description")
                            ELSE <<>>)
         IN With(md5(Bytes(content)), LAMBDA hash_obj :
            With(Slice(hexdigest(hash_obj), 0, 8), LAMBDA hash_hex :
            With(IntBase16(hash_hex, 0, 0), LAMBDA number :
                zfill(Slice(StrOfHalves(number, <<>>), 0, 8), 8))))
    ELSE <<"0","0","0","0","0","0","0","0">>

\* An element of the document: its tag, its text (NoText for None) and its
\* children, in order.
Leaf(tag, text) == [tag |-> tag, text |-> text, children |-> <<>>]

Node(tag, children) == [tag |-> tag, text |-> NoText, children |-> children]

\* "if value": an option is given and is not the empty string
Truthy(value) == value # NoText /\ value # <<>>

\* datetime.now().strftime("%Y%m%d%H%M%S").  One conversion reads the clock
\* several times; the model gives it the same reading each time.
Timestamp(now) == strftime(now, <<"%Y","%m","%d","%H","%M","%S">>)

STATUS == Node(<<"S","T","A","T","U","S">>, <<Leaf(<<"C","O","D","E">>, <<"0">>), Leaf(<<"S","E","V","E","R","I","T","Y">>, <<"I","N","F","O">>)>>)

_add_signon_section(config, now) ==
    Node(<<"S","I","G","N","O","N","M","S","G","S","R","S","V","1">>, <<
        Node(<<"S","O","N","R","S">>,
            <<STATUS,
              Leaf(<<"D","T","S","E","R","V","E","R">>, Timestamp(now)),
              Leaf(<<"L","A","N","G","U","A","G","E">>, <<"E","N","G">>),
              Leaf(<<"D","T","P","R","O","F","U","P">>, Timestamp(now)),
              Leaf(<<"D","T","A","C","C","T","U","P">>, Timestamp(now))>>
            \o (IF Truthy(config.fi_org) \/ Truthy(config.fi_id)
                THEN <<Node(<<"F","I">>,
                         (IF Truthy(config.fi_org) THEN <<Leaf(<<"O","R","G">>, config.fi_org)>> ELSE <<>>)
                         \o (IF Truthy(config.fi_id) THEN <<Leaf(<<"F","I","D">>, config.fi_id)>> ELSE <<>>))>>
                ELSE <<>>)) >>)

\* the children of the root that repeat the preamble
HeaderElements(config) == <<
    Leaf(<<"O","F","X","H","E","A","D","E","R">>, <<"1","0","0">>),
    Leaf(<<"D","A","T","A">>, <<"O","F","X","S","G","M","L">>),
    Leaf(<<"V","E","R","S","I","O","N">>, config.ofx_version),
    Leaf(<<"S","E","C","U","R","I","T","Y">>, <<"N","O","N","E">>),
    Leaf(<<"E","N","C","O","D","I","N","G">>, <<"U","T","F","-","8">>),
    Leaf(<<"C","H","A","R","S","E","T">>, <<"C","S","U","N","I","C","O","D","E">>),
    Leaf(<<"C","O","M","P","R","E","S","S","I","O","N">>, <<"N","O","N","E">>),
    Leaf(<<"O","L","D","F","I","L","E","U","I","D">>, <<"N","O","N","E">>),
    Leaf(<<"N","E","W","F","I","L","E","U","I","D">>, <<"N","O","N","E">>) >>

_create_ofx_structure(config, now) ==
    Node(<<"O","F","X">>, HeaderElements(config) \o <<_add_signon_section(config, now)>>)

\* _add_transaction_to_list: the children of the STMTTRN entry of a
\* transaction; NoText for DTPOSTED and DTUSER without text and for no NAME
_add_transaction_to_list(transaction) ==
    [TRNTYPE |-> _determine_transaction_type(transaction),
     DTPOSTED |-> IF DictHas(transaction, "date")
                  THEN _format_ofx_date(DictGet(transaction, "date")) ELSE NoText,
     DTUSER |-> IF DictHas(transaction, "date")
                THEN _format_ofx_date(DictGet(transaction, "date")) ELSE NoText,
     TRNAMT |-> TrnAmt(transaction),
     FITID |-> FitId(transaction),
     NAME |-> IF DictHas(transaction, "description")
              THEN _sanitize_text(DictGet(transaction, "description")) ELSE NoText]

\* the STMTTRN element of an entry
StmtTrn(entry) ==
    Node(<<"S","T","M","T","T","R","N">>,
        <<Leaf(<<"T","R","N","T","Y","P","E">>, entry.TRNTYPE),
          Leaf(<<"D","T","P","O","S","T","E","D">>, entry.DTPOSTED),
          Leaf(<<"D","T","U","S","E","R">>, entry.DTUSER),
          Leaf(<<"T","R","N","A","M","T">>, entry.TRNAMT),
          Leaf(<<"F","I","T","I","D">>, entry.FITID)>>
        \o (IF entry.NAME # NoText THEN <<Leaf(<<"N","A","M","E">>, entry.NAME)>> ELSE <<>>))

_add_balance_sections(now) == <<
    Node(<<"L","E","D","G","E","R","B","A","L">>, <<Leaf(<<"B","A","L","A","M","T">>, <<"0",".","0","0">>), Leaf(<<"D","T","A","S","O","F">>, Timestamp(now))>>),
    Node(<<"A","V","A","I","L","B","A","L">>, <<Leaf(<<"B","A","L","A","M","T">>, <<"0",".","0","0">>), Leaf(<<"D","T","A","S","O","F">>, Timestamp(now))>>) >>

\* the entries of BANKTRANLIST, one per transaction
Entries(transactions) ==
    [i \in 1..Len(transactions) |-> _add_transaction_to_list(transactions[i])] \o <<>>

\* _add_transactions_to_ofx: the BANKMSGSRSV1 element with the entries
_add_transactions_to_ofx(transactions, entries, config, now) ==
    Node(<<"B","A","N","K","M","S","G","S","R","S","V","1">>, <<
        Node(<<"S","T","M","T","T","R","N","R","S">>, <<
            Leaf(<<"T","R","N","U","I","D">>, <<"0">>),
            STATUS,
            Node(<<"S","T","M","T","R","S">>,
                <<Leaf(<<"C","U","R","D","E","F">>, config.currency),
                  Node(<<"B","A","N","K","A","C","C","T","F","R","O","M">>, <<
                      Leaf(<<"B","A","N","K","I","D">>, IF Truthy(config.fi_id) THEN config.fi_id
                                       ELSE <<"0","0","0","0","0","0","0","0","0">>),
                      Leaf(<<"A","C","C","T","I","D">>, IF Truthy(config.account_id) THEN config.account_id
                                       ELSE <<"0","0","0","0","0","0","0","0","0","0","0","0">>),
                      Leaf(<<"A","C","C","T","T","Y","P","E">>, config.account_type) >>),
                  Node(<<"B","A","N","K","T","R","A","N","L","I","S","T">>,
                      <<Leaf(<<"D","T","S","T","A","R","T">>,
                             IF transactions # <<>>
                             THEN _format_ofx_date(_get_earliest_date(transactions, now))
                             ELSE NoText),
                        Leaf(<<"D","T","E","N","D">>,
                             IF transactions # <<>>
                             THEN _format_ofx_date(_get_latest_date(transactions, now))
                             ELSE NoText)>>
                      \o (IF transactions # <<>>
                          THEN [i \in 1..Len(entries) |-> StmtTrn(entries[i])]
                          ELSE <<>>))>>
                \o (IF transactions # <<>> THEN _add_balance_sections(now) ELSE <<>>)) >>) >>)

\* the tags _write_sgml_element skips
header_tags == <<<<"O","F","X","H","E","A","D","E","R">>, <<"D","A","T","A">>, <<"V","E","R","S","I","O","N">>, <<"S","E","C","U","R","I","T","Y">>, <<"E","N","C","O","D","I","N","G">>,
                 <<"C","H","A","R","S","E","T">>, <<"C","O","M","P","R","E","S","S","I","O","N">>, <<"O","L","D","F","I","L","E","U","I","D">>, <<"N","E","W","F","I","L","E","U","I","D">>>>

\* f.write(text + "\n"): the lines the file gains
Written(text) ==
    IF \A i \in 1..Len(text) : text[i] # "\n" THEN <<text>> ELSE split(text, <<"\n">>)

\* "  " * indent
Spaces(indent) == [i \in 1..(2 * indent) |-> " "]

\* _write_sgml_element, had it written the children of a container at the
\* indentation of the container
RECURSIVE WriteSgmlUnindented(_, _)
WriteSgmlUnindented(element, indent) ==
    Concat([i \in 1..Len(element.children) |->
        LET child == element.children[i] IN
        IF \E t \in 1..Len(header_tags) : header_tags[t] = child.tag THEN <<>>
        ELSE IF Truthy(child.text) /\ strip(child.text) # <<>>
             THEN Written(Spaces(indent) \o <<"<">> \o child.tag \o <<">">> \o child.text)
             ELSE Written(Spaces(indent) \o <<"<">> \o child.tag \o <<">">>)
                  \o WriteSgmlUnindented(child, indent)])

\* _write_sgml_element(f, element, indent): the lines written for the
\* children of element
RECURSIVE _write_sgml_element(_, _)
_write_sgml_element(element, indent) ==
    Concat([i \in 1..Len(element.children) |->
        LET child == element.children[i] IN
        IF \E t \in 1..Len(header_tags) : header_tags[t] = child.tag THEN <<>>
        ELSE IF Truthy(child.text) /\ strip(child.text) # <<>>
             THEN Written(Spaces(indent) \o <<"<">> \o child.tag \o <<">">> \o child.text)
             ELSE Written(Spaces(indent) \o <<"<">> \o child.tag \o <<">">>)
                  \o _write_sgml_element(child, indent + 1)])

\* _write_ofx_file: the lines of the file
_write_ofx_file(ofx_root, config) ==
    <<<<"O","F","X","H","E","A","D","E","R",":","1","0","0">>,
      <<"D","A","T","A",":","O","F","X","S","G","M","L">>>>
    \o Written(<<"V","E","R","S","I","O","N",":">> \o config.ofx_version)
    \o <<<<"S","E","C","U","R","I","T","Y",":","N","O","N","E">>,
         <<"E","N","C","O","D","I","N","G",":","U","T","F","-","8">>,
         <<"C","H","A","R","S","E","T",":","C","S","U","N","I","C","O","D","E">>,
         <<"C","O","M","P","R","E","S","S","I","O","N",":","N","O","N","E">>,
         <<"O","L","D","F","I","L","E","U","I","D",":","N","O","N","E">>,
         <<"N","E","W","F","I","L","E","U","I","D",":","N","O","N","E">>,
         <<>>,
         <<"<","O","F","X",">">>>>
    \o _write_sgml_element(ofx_root, 1)
    \o <<<<"<","/","O","F","X",">">>>>

\* the document generate_ofx builds: the root after _create_ofx_structure
\* and _add_transactions_to_ofx
Document(transactions, entries, config, now) ==
    With(_create_ofx_structure(config, now), LAMBDA ofx_root :
        [ofx_root EXCEPT !.children =
            Append(@, _add_transactions_to_ofx(transactions, entries, config, now))])

\* generate_ofx, had it stored the options before looking at the list
GenerateOfxStoringFirst(transactions, options, config, content, now) ==
    IF transactions = <<>>
    THEN [ok |-> FALSE, kind |-> "ValueError", error |-> <<"No transactions to convert">>,
          generator |-> options, output |-> content]
    ELSE With(Entries(transactions), LAMBDA entries :
         With(Document(transactions, entries, options, now), LAMBDA ofx_root :
             [ok |-> TRUE, kind |-> "", error |-> <<>>,
              generator |-> options,
              output |-> [exists |-> TRUE, STMTTRN |-> entries, OFX |-> ofx_root,
                          lines |-> _write_ofx_file(ofx_root, options)]]))

\* generate_ofx, had it opened the file before looking at the list
GenerateOfxOpeningFirst(transactions, options, config, content, now) ==
    IF transactions = <<>>
    THEN [ok |-> FALSE, kind |-> "ValueError", error |-> <<"No transactions to convert">>,
          generator |-> config, output |-> [NoOutput EXCEPT !.exists = TRUE]]
    ELSE With(Entries(transactions), LAMBDA entries :
         With(Document(transactions, entries, options, now), LAMBDA ofx_root :
             [ok |-> TRUE, kind |-> "", error |-> <<>>,
              generator |-> options,
              output |-> [exists |-> TRUE, STMTTRN |-> entries, OFX |-> ofx_root,
                          lines |-> _write_ofx_file(ofx_root, options)]]))

\* generate_ofx(transactions, output_path, **options) on a generator whose
\* fields are config, with the file content before and the clock at now: the
\* exception raised, the configuration the generator is left with and the
\* file after.  Of the file the model keeps its lines, the document they
\* were written from and the entries of its transaction list.
generate_ofx(transactions, options, config, content, now) ==
    IF transactions = <<>>
    THEN [ok |-> FALSE, kind |-> "ValueError", error |-> <<"No transactions to convert">>,
          generator |-> config, output |-> content]
    ELSE With(Entries(transactions), LAMBDA entries :
         With(Document(transactions, entries, options, now), LAMBDA ofx_root :
             [ok |-> TRUE, kind |-> "", error |-> <<>>,
              generator |-> options,
              output |-> [exists |-> TRUE, STMTTRN |-> entries, OFX |-> ofx_root,
                          lines |-> _write_ofx_file(ofx_root, options)]]))

(***************************************************************************)
(* Parser inputs: files made of an optional preamble, an optional header   *)
(* record and up to MaxDataRows data records of a date, an amount and a    *)
(* description (the third record has no description), written with one     *)
(* separator; with or without a .cols file; and the requested format.      *)
(***************************************************************************)
MaxDataRows == 5

DataRecords == <<
    <<<<"2","0","2","3","-","0","1","-","0","1">>, <<"1","0","0",".","0","0">>, <<"G","a","s"," ","s","t","a","t","i","o","n">>>>,
    <<<<"2","0","2","3","-","0","1","-","0","2">>, <<"-","5","0",".","2","5">>, <<"C","o","f","f","e","e"," ","s","h","o","p">>>>,
    <<<<"2","0","2","3","-","0","1","-","0","3">>, <<"2","0",".","0","0">>, <<>> >>,
    <<<<"2","0","2","3","-","0","1","-","0","4">>, <<"7","5",".","1","0">>, <<"B","o","o","k"," ","s","t","o","r","e">>>>,
    <<<<"2","0","2","3","-","0","1","-","0","5">>, <<"1","2","0","0">>, <<"R","e","n","t"," ","p","a","i","d",".">>>> >>

\* the first n data records; after the fifth they repeat
DataRows(n) == [i \in 1..n |-> DataRecords[((i - 1) % Len(DataRecords)) + 1]]

h_full == <<<<"D","a","t","e">>, <<"A","m","o","u","n","t">>, <<"D","e","s","c","r","i","p","t","i","o","n">>>>

h_two == <<<<"D","a","t","e">>, <<"V","a","l","u","e">>, <<"I","n","f","o">>>>

h_one == <<<<"P","o","s","t","e","d"," ","D","a","t","e">>, <<"I","n">>, <<"O","u","t">>>>

h_swap == <<<<"T","r","a","n","s","a","c","t","i","o","n">>, <<"B","a","l","a","n","c","e">>, <<"I","n","f","o">>>>

h_test == <<<<"I","D">>, <<"N","a","m","e">>, <<"S","t","a","t","u","s">>>>

HeaderRecords == {h_full, h_two, h_one, h_swap, h_test}

\* what comes before the header record: nothing; a title and a record of
\* empty fields; a title that itself has the word the header search looks for
Preambles == {
    <<>>,
    << <<<<"S","t","a","t","e","m","e","n","t">>, <<>>, <<>> >>, << <<>>, <<>>, <<>> >> >>,
    << <<<<"T","r","a","n","s","a","c","t","i","o","n","s"," ","2","0","2","3">>, <<>>, <<>> >> >> }

\* the stored lines of the records: all but the last end with a newline
Lines(records, sep) ==
    [i \in 1..Len(records) |->
        join(records[i], sep) \o (IF i < Len(records) THEN <<"\n">> ELSE <<>>)]

csv_suffix == <<".","c","s","v">>

txt_suffix == <<".","t","x","t">>

home == <<"/","h","o","m","e","/","u","s","e","r">>

File(suffix, lines, cols) ==
    [dir |-> home, stem |-> <<"s","t","a","t","e","m","e","n","t">>, suffix |-> suffix, exists |-> TRUE,
     lines |-> lines, cols |-> cols]

ColsTexts == {<<"\"","D","a","t","e","\"",",","\"","A","m","o","u","n","t","\"",",","\"","D","e","s","c","r","i","p","t","i","o","n","\"">>, <<"W","h","e","n",","," ","D","e","b","i","t",","," ","M","e","m","o">>, <<"D","a","t","e",",","A","m","o","u","n","t">>}

\* comma-separated tables with a header record
HeadedLines ==
    {Lines(p \o <<h>> \o DataRows(n), <<",">>) :
        p \in Preambles, h \in HeaderRecords, n \in 0..MaxDataRows}

\* tables of data records only, written with one of the separators
Separators == {<<",">>, <<"|">>, <<";">>, <<" ", " ">>}

BareLines == {Lines(DataRows(n), sep) : n \in 1..MaxDataRows, sep \in Separators}

\* (suffix, .cols content, requested format) of the calls on a headed table
HeadedCalls == {
    <<csv_suffix, NoFile, "auto">>,
    <<csv_suffix, NoFile, "txt">>,
    <<txt_suffix, NoFile, "auto">>,
    <<csv_suffix, <<"\"","D","a","t","e","\"",",","\"","A","m","o","u","n","t","\"",",","\"","D","e","s","c","r","i","p","t","i","o","n","\"">>, "csv">> }

BareCalls ==
    {<<txt_suffix, cols, format>> : cols \in ColsTexts \cup {NoFile}, format \in {"auto", "txt"}}

\* scripts/generate_test_data.py: the lines of fixed_width_statement.txt, a
\* date, a description, an amount and a type in columns padded with blanks
fixed_width_statement == <<
    <<"2","0","2","3","-","0","3","-","0","1","G","r","o","c","e","r","y"," ","s","t","o","r","e"," ","p","u","r","c","h","a","s","e"," "," "," ","1","2","5",".","5","0"," "," "," "," ","d","e","b","i","t"," "," "," "," ">> \o <<"\n">>,
    <<"2","0","2","3","-","0","3","-","0","2","A","T","M"," ","w","i","t","h","d","r","a","w","a","l"," "," "," "," "," "," "," "," "," "," "," ","2","0","0",".","0","0"," "," "," "," ","d","e","b","i","t"," "," "," "," ">> \o <<"\n">>,
    <<"2","0","2","3","-","0","3","-","0","3","S","a","l","a","r","y"," ","d","e","p","o","s","i","t"," "," "," "," "," "," "," "," "," "," "," ","2","5","0","0",".","0","0"," "," "," ","c","r","e","d","i","t"," "," "," ">> \o <<"\n">>,
    <<"2","0","2","3","-","0","3","-","0","4","G","a","s"," ","s","t","a","t","i","o","n"," "," "," "," "," "," "," "," "," "," "," "," "," "," ","4","5",".","7","5"," "," "," "," "," ","d","e","b","i","t"," "," "," "," ">> \o <<"\n">>,
    <<"2","0","2","3","-","0","3","-","0","5","O","n","l","i","n","e"," ","p","a","y","m","e","n","t"," "," "," "," "," "," "," "," "," "," "," ","8","9",".","9","9"," "," "," "," "," ","d","e","b","i","t"," "," "," "," ">> \o <<"\n">> >>

\* the same records laid out as a 10-character date, a 30-character text, a
\* 10-character amount and a 10-character type
fixed_width_layout == <<
    <<"2","0","2","3","-","0","3","-","0","1","G","r","o","c","e","r","y"," ","s","t","o","r","e"," ","p","u","r","c","h","a","s","e"," "," "," "," "," "," "," "," ","1","2","5",".","5","0"," "," "," "," ","d","e","b","i","t"," "," "," "," "," ">> \o <<"\n">>,
    <<"2","0","2","3","-","0","3","-","0","2","A","T","M"," ","w","i","t","h","d","r","a","w","a","l"," "," "," "," "," "," "," "," "," "," "," "," "," "," "," "," ","2","0","0",".","0","0"," "," "," "," ","d","e","b","i","t"," "," "," "," "," ">> \o <<"\n">>,
    <<"2","0","2","3","-","0","3","-","0","3","S","a","l","a","r","y"," ","d","e","p","o","s","i","t"," "," "," "," "," "," "," "," "," "," "," "," "," "," "," "," ","2","5","0","0",".","0","0"," "," "," ","c","r","e","d","i","t"," "," "," "," ">> \o <<"\n">>,
    <<"2","0","2","3","-","0","3","-","0","4","G","a","s"," ","s","t","a","t","i","o","n"," "," "," "," "," "," "," "," "," "," "," "," "," "," "," "," "," "," "," ","4","5",".","7","5"," "," "," "," "," ","d","e","b","i","t"," "," "," "," "," ">> \o <<"\n">>,
    <<"2","0","2","3","-","0","3","-","0","5","O","n","l","i","n","e"," ","p","a","y","m","e","n","t"," "," "," "," "," "," "," "," "," "," "," "," "," "," "," "," ","8","9",".","9","9"," "," "," "," "," ","d","e","b","i","t"," "," "," "," "," ">> \o <<"\n">> >>

FixedWidthLines == {fixed_width_statement, fixed_width_layout}

\* a file that does not exist, an empty one, one under /etc, a format that
\* is not supported, an empty .cols file, the fixed-width statements
OtherCalls == {
    [file |-> [File(csv_suffix, Lines(<<h_full>> \o DataRows(2), <<",">>), NoFile)
               EXCEPT !.exists = FALSE], format |-> "auto"],
    [file |-> File(csv_suffix, <<>>, NoFile), format |-> "auto"],
    [file |-> [File(csv_suffix, Lines(<<h_full>> \o DataRows(2), <<",">>), NoFile)
               EXCEPT !.dir = <<"/","e","t","c","/","b","a","n","k">>], format |-> "csv"],
    [file |-> File(csv_suffix, Lines(<<h_full>> \o DataRows(2), <<",">>), NoFile),
     format |-> "ofx"],
    [file |-> File(txt_suffix, Lines(DataRows(2), <<",">>), <<" ">>), format |-> "txt"],
    [file |-> File(txt_suffix, fixed_width_statement, NoFile), format |-> "auto"],
    [file |-> File(txt_suffix, fixed_width_layout, NoFile), format |-> "auto"],
    [file |-> File(txt_suffix, fixed_width_layout, NoFile), format |-> "txt"] }

ParseCalls ==
    {[file |-> File(c[1], lines, c[2]), format |-> c[3]] : lines \in HeadedLines, c \in HeadedCalls}
    \cup {[file |-> File(c[1], lines, c[2]), format |-> c[3]] : lines \in BareLines, c \in BareCalls}
    \cup OtherCalls

\* what datetime.now() gives, at a first and at a later conversion
Clock == <<
    [ok |-> TRUE, Y |-> 2024, m |-> 2, d |-> 29, H |-> 23, M |-> 59, S |-> 7],
    [ok |-> TRUE, Y |-> 2024, m |-> 3, d |-> 1, H |-> 0, M |-> 0, S |-> 12] >>

\* the options of generate_ofx: the defaults, or an account given
OptionSets == {OFXGenerator, [OFXGenerator EXCEPT !.account_id = <<"1","2","3","4","5">>]}

(***************************************************************************)
(* A conversion, as cli.main runs it: parse_file on a fresh FileParser,    *)
(* then generate_ofx on a fresh OFXGenerator with the transactions.        *)
(***************************************************************************)
\* FileParser.parse_file(file, format)
ParseFile ==
    LET result == parse_file(arg.file, arg.format, detected_columns) IN
    /\ Calling("parse_file")
    /\ detected_columns' = result.st.known
    /\ ret' = result
    /\ pc' = "done"
    /\ UNCHANGED <<op, arg, generator, output>>

\* main goes on to generate_ofx with what parse_file returned
CallGenerateOfx ==
    /\ Returned("parse_file")
    /\ ret.ok
    /\ pc' = "call"
    /\ op' = "generate_ofx"
    /\ \E options \in OptionSets :
           arg' = [transactions |-> ret.transactions, options |-> options, now |-> Clock[1]]
    /\ UNCHANGED <<detected_columns, ret, generator, output>>

\* OFXGenerator.generate_ofx(transactions, output_path, **options)
GenerateOfx ==
    /\ Calling("generate_ofx")
    /\ \E result \in {generate_ofx(arg.transactions, arg.options, generator, output, arg.now)} :
           /\ generator' = result.generator
           /\ output' = result.output
           /\ ret' = [ok |-> result.ok, kind |-> result.kind, error |-> result.error]
    /\ pc' = "done"
    /\ UNCHANGED <<detected_columns, op, arg>>

InitParse ==
    /\ detected_columns = <<>>
    /\ generator = OFXGenerator
    /\ output = NoOutput
    /\ pc = "call"
    /\ op = "parse_file"
    /\ arg \in ParseCalls
    /\ ret = <<>>

ParseNext ==
    \/ ParseFile
    \/ CallGenerateOfx
    \/ GenerateOfx

SpecParse == InitParse /\ [][ParseNext]_vars

(***************************************************************************)
(* The generator on its own: generate_ofx called with transactions a       *)
(* caller built, then called again, on the same instance or on a new one,  *)
(* for the same destination.                                               *)
(***************************************************************************)
MaxTransactions == 2

MaxAmountLen == 2

\* a description longer than the limit, with a reserved character where the
\* text is cut
long_description == Rep("a", 250) \o <<"&">> \o Rep("b", 10)

SampleTransactions == <<
    <<[k |-> "date", v |-> <<"2","0","2","3","-","0","1","-","0","5">>], [k |-> "amount", v |-> <<"1","0","0",".","0","0">>],
      [k |-> "description", v |-> <<"G","a","s"," ","s","t","a","t","i","o","n">>], [k |-> "type", v |-> <<"d","e","b","i","t">>]>>,
    <<[k |-> "date", v |-> <<"2","0","2","3","-","0","1","-","0","5">>], [k |-> "amount", v |-> <<"1","0","0",".","0","0">>],
      [k |-> "description", v |-> <<"G","a","s"," ","s","t","a","t","i","o","n">>], [k |-> "type", v |-> <<"R","e","f","u","n","d">>]>>,
    <<[k |-> "date", v |-> <<"0","1","/","0","2","/","2","0","2","3">>], [k |-> "amount", v |-> <<"-","5","0",".","2","5">>],
      [k |-> "description", v |-> <<"T","o","m"," ","&"," ","J","e","r","r","y","'","s"," ","<","b",">">>], [k |-> "type", v |-> <<"a","t","m">>]>>,
    <<[k |-> "date", v |-> <<"1","3","/","0","1","/","2","0","2","3">>], [k |-> "debit", v |-> <<"$","1",",","2","3","4",".","5","0">>],
      [k |-> "credit", v |-> <<>>], [k |-> "description", v |-> <<"R","e","n","t"," ","\"","p","a","i","d","\"">>]>>,
    <<[k |-> "date", v |-> <<"2","0","2","2","1","2","3","1">>], [k |-> "debit", v |-> <<"0">>],
      [k |-> "credit", v |-> <<"1","0","0">>], [k |-> "description", v |-> <<"S","a","l","a","r","y">>]>>,
    <<[k |-> "date", v |-> <<"n","o","t"," ","a"," ","d","a","t","e">>], [k |-> "amount", v |-> <<"a","b","c">>],
      [k |-> "description", v |-> <<"x">>]>>,
    <<[k |-> "amount", v |-> <<"1","0","0">>], [k |-> "description", v |-> <<"N","o"," ","d","a","t","e">>]>>,
    <<[k |-> "date", v |-> <<"2","0","2","3","-","0","1","-","0","3">>], [k |-> "debit", v |-> <<"n","/","a">>],
      [k |-> "credit", v |-> <<"5","0",".","0","0">>], [k |-> "description", v |-> <<"R","e","f","u","n","d">>]>>,
    <<[k |-> "date", v |-> <<"2","0","2","3","-","0","1","-","0","4">>], [k |-> "amount", v |-> <<"5">>],
      [k |-> "type", v |-> <<"T","r","a","n","s","f","e","r">>]>>,
    <<[k |-> "date", v |-> <<"2","0","2","3","-","0","1","-","0","2">>], [k |-> "amount", v |-> <<"1",",","0","0","0">>],
      [k |-> "description", v |-> long_description]>> >>

\* n transactions of the samples in a row, from the one at start on
Window(start, n) ==
    [i \in 1..n |-> SampleTransactions[((start + i - 2) % Len(SampleTransactions)) + 1]]

TransactionLists ==
    {Window(start, n) : start \in 1..Len(SampleTransactions), n \in 0..MaxTransactions}

AmountChars == {"1", "0", ".", ",", "$", " ", "-"}

AmountCells == UNION {[1..n -> AmountChars] : n \in 0..MaxAmountLen}

\* one transaction for each text an amount cell may hold
AmountLists ==
    {<<<<[k |-> "date", v |-> <<"2","0","2","3","-","0","1","-","0","5">>], [k |-> "amount", v |-> text \o <<>>],
         [k |-> "description", v |-> <<"F","e","e">>]>>>> : text \in AmountCells}

\* the options of generate_ofx, an institution and a currency among them
GeneratorOptions ==
    OptionSets \cup
    {[OFXGenerator EXCEPT !.fi_org = <<"B","a","n","k">>, !.fi_id = <<"0","0","7">>, !.currency = <<"E","U","R">>,
                          !.ofx_version = <<"1","0","3">>]}

GeneratorCalls ==
    {[transactions |-> transactions, options |-> options, now |-> Clock[1]] :
        transactions \in TransactionLists, options \in GeneratorOptions}
    \cup {[transactions |-> transactions, options |-> OFXGenerator, now |-> Clock[1]] :
            transactions \in AmountLists}

Reverse(s) == [i \in 1..Len(s) |-> s[Len(s) + 1 - i]]

\* the caller converts again, later: nothing, or the same transactions in
\* the opposite order, with the generator it has or with a new one
CallGenerateOfxAgain ==
    /\ Returned("generate_ofx")
    /\ arg.now = Clock[1]
    /\ arg.transactions \in TransactionLists
    /\ pc' = "call"
    /\ \E transactions \in {<<>>, Reverse(arg.transactions)}, options \in GeneratorOptions :
           arg' = [transactions |-> transactions, options |-> options, now |-> Clock[2]]
    /\ generator' \in {generator, OFXGenerator}
    /\ UNCHANGED <<detected_columns, op, ret, output>>

InitGenerator ==
    /\ detected_columns = <<>>
    /\ generator = OFXGenerator
    /\ output = NoOutput
    /\ pc = "call"
    /\ op = "generate_ofx"
    /\ arg \in GeneratorCalls
    /\ ret = <<>>

GeneratorNext ==
    \/ GenerateOfx
    \/ CallGenerateOfxAgain

SpecGenerator == InitGenerator /\ [][GeneratorNext]_vars

(***************************************************************************)
(* Conversions run side by side in one folder, each as cli.main runs it:   *)
(* the output path is taken from the command line or derived from the      *)
(* input, the input is parsed by a FileParser of its own, and the document *)
(* is generated by an OFXGenerator of its own.  Here every variable but    *)
(* output is a function of the conversion, and output is the folder: the   *)
(* set of its .ofx files, each a record of its path, its content and the   *)
(* conversion that wrote it.  The calls of parse_file, of generate_ofx and *)
(* of get_output_filename are steps of the conversion that makes them.     *)
(***************************************************************************)
Conversions == {1, 2}

\* no --output on the command line
NoPath == [dir |-> <<>>, stem |-> <<>>, suffix |-> <<>>]

TestFile(suffix, lines) == [File(suffix, lines, NoFile) EXCEPT !.stem = <<"t","e","s","t">>]

\* test.ofx, or test_i.ofx
TestOfx(i) ==
    [dir |-> home,
     stem |-> <<"t","e","s","t">> \o (IF i = 0 THEN <<>> ELSE <<"_">> \o Decimal(i)),
     suffix |-> <<".","o","f","x">>]

\* a file that was in the folder before the conversions started
Old(path) ==
    [path |-> PathText(path), by |-> 0,
     content |-> [NoOutput EXCEPT !.exists = TRUE, !.lines = <<<<"o","l","d">>>>]]

\* what the folder holds at the start: nothing; test.ofx; test.ofx and
\* test_1 to test_3; test_1 alone; test.ofx and test_2; test.ofx and all but
\* the last of the numbered names; test.ofx and all of the numbered names
Folders == {
    {},
    {Old(TestOfx(0))},
    {Old(TestOfx(i)) : i \in 0..3},
    {Old(TestOfx(1))},
    {Old(TestOfx(0)), Old(TestOfx(2))},
    {Old(TestOfx(i)) : i \in 0..(LastSuffix - 1)},
    {Old(TestOfx(i)) : i \in 0..LastSuffix} }

\* the command lines of the first conversion: a table that converts, with
\* and without an output path; a table whose only row lacks a description;
\* a table without the required columns; a path without a name
FirstCommands == {
    [file |-> TestFile(csv_suffix, Lines(<<h_full>> \o DataRows(1), <<",">>)),
     format |-> "auto", output |-> NoPath, options |-> OFXGenerator],
    [file |-> TestFile(csv_suffix, Lines(<<h_full>> \o DataRows(1), <<",">>)),
     format |-> "auto", output |-> TestOfx(0), options |-> OFXGenerator],
    [file |-> TestFile(csv_suffix, Lines(<<h_full, DataRecords[3]>>, <<",">>)),
     format |-> "auto", output |-> TestOfx(0), options |-> OFXGenerator],
    [file |-> TestFile(csv_suffix, Lines(<<h_test>> \o DataRows(1), <<",">>)),
     format |-> "auto", output |-> TestOfx(0), options |-> OFXGenerator],
    [file |-> [TestFile(csv_suffix, Lines(<<h_full>> \o DataRows(1), <<",">>))
               EXCEPT !.stem = <<>>],
     format |-> "auto", output |-> NoPath, options |-> OFXGenerator] }

\* the command lines of the second: test.txt, a table with a header that
\* converts, for another account, and test.txt with a row that lacks a
\* description
SecondCommands == {
    [file |-> TestFile(txt_suffix, Lines(<<h_full>> \o SubSeq(DataRecords, 2, 2), <<",">>)),
     format |-> "auto", output |-> NoPath,
     options |-> [OFXGenerator EXCEPT !.account_id = <<"1","2","3","4","5">>]],
    [file |-> TestFile(txt_suffix, Lines(<<h_full, DataRecords[3]>>, <<",">>)),
     format |-> "auto", output |-> NoPath, options |-> OFXGenerator] }

\* the file of the folder at path, or none
FileAt(folder, path) ==
    IF exists(path, folder)
    THEN (CHOOSE f \in folder : f.path = PathText(path)).content
    ELSE NoOutput

\* the folder after conversion c left content at path
Put(folder, path, content, c) ==
    {f \in folder : f.path # PathText(path)}
    \cup {[path |-> PathText(path), by |-> c, content |-> content]}

\* main, "Determine output file path"
OutputPath(c) ==
    /\ pc[c] = "output"
    /\ \E result \in {IF arg[c].output = NoPath
                      THEN get_output_filename(arg[c].file, output)
                      ELSE [ok |-> TRUE, kind |-> "", error |-> <<>>,
                            path |-> arg[c].output]} :
           /\ ret' = [ret EXCEPT ![c] = [ok |-> result.ok, kind |-> result.kind,
                                         error |-> result.error, path |-> result.path,
                                         transactions |-> <<>>]]
           /\ pc' = [pc EXCEPT ![c] = IF result.ok THEN "parse" ELSE "failed"]
    /\ UNCHANGED <<detected_columns, op, arg, generator, output>>

\* main, "Parse input file"
Parse(c) ==
    /\ pc[c] = "parse"
    /\ \E result \in {parse_file(arg[c].file, arg[c].format, detected_columns[c])} :
           /\ detected_columns' = [detected_columns EXCEPT ![c] = result.st.known]
           /\ ret' = [ret EXCEPT ![c] = [ok |-> result.ok, kind |-> result.kind,
                                         error |-> result.error, path |-> ret[c].path,
                                         transactions |-> IF result.ok
                                                          THEN result.transactions
                                                          ELSE <<>>]]
           /\ pc' = [pc EXCEPT ![c] = IF result.ok THEN "generate" ELSE "failed"]
    /\ UNCHANGED <<op, arg, generator, output>>

\* main, "Generate OFX file"
Generate(c) ==
    /\ pc[c] = "generate"
    /\ \E content \in {FileAt(output, ret[c].path)} :
       \E result \in {generate_ofx(ret[c].transactions, arg[c].options, generator[c],
                                   content, Clock[c])} :
           /\ generator' = [generator EXCEPT ![c] = result.generator]
           /\ output' = IF result.output = content THEN output
                        ELSE Put(output, ret[c].path, result.output, c)
           /\ ret' = [ret EXCEPT ![c].ok = result.ok, ![c].kind = result.kind,
                                 ![c].error = result.error]
           /\ pc' = [pc EXCEPT ![c] = IF result.ok THEN "done" ELSE "failed"]
    /\ UNCHANGED <<detected_columns, op, arg>>

InitConversions ==
    /\ detected_columns = [c \in Conversions |-> <<>>]
    /\ generator = [c \in Conversions |-> OFXGenerator]
    /\ output \in Folders
    /\ pc = [c \in Conversions |-> "output"]
    /\ op = "main"
    /\ \E first \in FirstCommands, second \in SecondCommands :
           arg = [c \in Conversions |-> IF c = 1 THEN first ELSE second]
    /\ ret = [c \in Conversions |-> <<>>]

ConversionsNext ==
    \E c \in Conversions :
        \/ OutputPath(c)
        \/ Parse(c)
        \/ Generate(c)

SpecConversions == InitConversions /\ [][ConversionsNext]_vars

(***************************************************************************)
(* The value tests on their own: one call of _is_date_value,               *)
(* _is_amount_value or _is_description_value with a text.                  *)
(***************************************************************************)
\* the texts the tests are called with: a core between a prefix and a suffix
ValueCores == {
    <<>>, <<"1">>, <<"1","2">>, <<"1","0","0">>, <<"1","0","0",".">>, <<"1","0","0",".","5">>, <<"1","0","0",".","0","0">>, <<"1","0","0",".","0","0","0">>,
    <<"1",",","0","0","0">>, <<"1",",","0","0","0",".","0","0">>, <<"1",",","0","0","0",".","5">>, <<"1",",","0","0">>, <<"1","0","0","0",",","0","0","0">>, <<"1","2",",","3","4","5",",","6","7","8",".","0","0">>,
    <<"1","0","0","\n","$">>, <<"1","0","0",".","5","0">>, <<".","5","0">>,
    <<"a","b","c">>, <<"a","b">>, <<"A","b">>, <<"a",".">>, <<"n","o","t"," ","a","n"," ","a","m","o","u","n","t">>, <<"n","o","t"," ","a"," ","d","a","t","e">>, <<"1","0","0",".","a","b","c">>,
    <<"1","2","3">>, <<"1","2","3","4","5">>, <<"1","2","3","4","5","6">>, <<"1","2","3","4","5","6","7">>, <<"2","0","2","3","0","1","0","1">>,
    <<"2","0","2","3","-","0","1","-","0","1">>, <<"2","0","2","3","-","1","-","5">>, <<"2","0","2","3","-","1","3","-","0","1">>, <<"2","0","2","3","-","0","2","-","3","0">>,
    <<"0","1","/","0","1","/","2","0","2","3">>, <<"3","1","/","1","2","/","2","0","2","3">>, <<"1","3","/","1","3","/","2","0","2","3">>, <<"1","/","2","/","2","0","2","3">>, <<"0","1","/","0","1","/","2","3">>,
    <<"2","0","2","3","/","0","1","/","0","1">>, <<"0","1","-","0","1","-","2","0","2","3">>, <<"2","0","2","3","/","0","1","/","0","1"," ","1","0",":","0","0",":","0","0">>,
    <<"G","r","o","c","e","r","y"," ","s","t","o","r","e"," ","p","u","r","c","h","a","s","e">>, <<"A","T","M"," ","w","i","t","h","d","r","a","w","a","l">>, <<"A","T","M">>, <<"a"," ","b">> }

ValuePrefixes == {<<>>, <<" ">>, <<"$">>, <<"-">>, <<"x">>}

ValueSuffixes == {<<>>, <<" ">>, <<"a","b","c">>, <<".","5">>, <<"0">>, <<"!">>, <<" ","M","a","i","n"," ","S","t">>}

ValueTexts == {p \o c \o s : p \in ValuePrefixes, c \in ValueCores, s \in ValueSuffixes}

\* ColumnDetector._is_date_value(value)
IsDateValue ==
    /\ Calling("_is_date_value")
    /\ ret' = _is_date_value(arg)
    /\ pc' = "done"
    /\ UNCHANGED <<detected_columns, op, arg, generator, output>>

\* ColumnDetector._is_amount_value(value)
IsAmountValue ==
    /\ Calling("_is_amount_value")
    /\ ret' = _is_amount_value(arg)
    /\ pc' = "done"
    /\ UNCHANGED <<detected_columns, op, arg, generator, output>>

\* ColumnDetector._is_description_value(value)
IsDescriptionValue ==
    /\ Calling("_is_description_value")
    /\ ret' = _is_description_value(arg)
    /\ pc' = "done"
    /\ UNCHANGED <<detected_columns, op, arg, generator, output>>

InitValues ==
    /\ generator = OFXGenerator
    /\ output = NoOutput
    /\ detected_columns = <<>>
    /\ pc = "call"
    /\ op \in {"_is_date_value", "_is_amount_value", "_is_description_value"}
    /\ arg \in ValueTexts
    /\ ret = <<>>

ValuesNext ==
    \/ IsDateValue
    \/ IsAmountValue
    \/ IsDescriptionValue

SpecValues == InitValues /\ [][ValuesNext]_vars

(***************************************************************************)
(* _detect_fixed_width_boundaries on its own, with up to MaxSampleLines    *)
(* sample lines.                                                           *)
(***************************************************************************)
MaxSampleLines == 3

SampleLines == {
    <<"a","b"," ","c","d">>, <<"e","f"," ","g","h">>, <<"a","b"," "," ","c","d">>, <<"e","f","g"," ","h","i">>, <<"a","b","c"," "," ","d","e"," "," ","f">>, <<"a","b">>, <<"a">>, <<" ","x"," "," ","y">> }

SampleLineLists ==
    {<<>>} \cup UNION {[1..n -> SampleLines] : n \in 1..MaxSampleLines}

\* FileParser._detect_fixed_width_boundaries(lines)
DetectFixedWidthBoundaries ==
    /\ Calling("_detect_fixed_width_boundaries")
    /\ ret' = _detect_fixed_width_boundaries(arg)
    /\ pc' = "done"
    /\ UNCHANGED <<detected_columns, op, arg, generator, output>>

InitBoundaries ==
    /\ generator = OFXGenerator
    /\ output = NoOutput
    /\ detected_columns = <<>>
    /\ pc = "call"
    /\ op = "_detect_fixed_width_boundaries"
    /\ arg \in SampleLineLists
    /\ ret = <<>>

BoundariesNext == DetectFixedWidthBoundaries

SpecBoundaries == InitBoundaries /\ [][BoundariesNext]_vars

(***************************************************************************)
(* parse_file on text files without a .cols file: tables of data records   *)
(* written with one of five separators, a table whose records differ in    *)
(* their number of commas, a table that two delimiters divide into valid   *)
(* columns, and a table none of whose rows has every required field.       *)
(***************************************************************************)
TextSeparators == {<<",">>, <<"\t">>, <<"|">>, <<";">>, <<" ", " ">>}

\* the records a to b of DataRecords
RecordWindows ==
    {SubSeq(DataRecords, a, b) : a \in 1..Len(DataRecords), b \in 1..Len(DataRecords)} \ {<<>>}

ragged_lines == <<
    <<"2","0","2","3","-","0","1","-","0","1","|","G","a","s",","," ","s","t","a","t","i","o","n","|","1","0","0",".","0","0","\n">>,
    <<"2","0","2","3","-","0","1","-","0","2","|","C","o","f","f","e","e",","," ","s","h","o","p",","," ","b","a","r","|","-","5","0",".","2","5">> >>

twofold_lines == <<
    <<"2","0","2","3","-","0","1","-","0","1",";","A",",","b",";","1",",","0","0","0","\n">>,
    <<"2","0","2","3","-","0","1","-","0","2",";","C",",","d",";","2",",","0","0","0">> >>

rowless_lines == <<
    <<"2","0","2","3","-","0","1","-","0","3","|","2","0",".","0","0","|","\n">>,
    <<"|","7","5",".","1","0","|","B","o","o","k"," ","s","t","o","r","e">> >>

TextLines ==
    {Lines(records, sep) : records \in RecordWindows, sep \in TextSeparators}
    \cup {ragged_lines, twofold_lines, rowless_lines}

TextCalls ==
    {[file |-> File(txt_suffix, lines, NoFile), format |-> format] :
        lines \in TextLines, format \in {"auto", "txt"}}

InitAutoDetect ==
    /\ detected_columns = <<>>
    /\ generator = OFXGenerator
    /\ output = NoOutput
    /\ pc = "call"
    /\ op = "parse_file"
    /\ arg \in TextCalls
    /\ ret = <<>>

AutoDetectNext == ParseFile

SpecAutoDetect == InitAutoDetect /\ [][AutoDetectNext]_vars

(***************************************************************************)
(* _dataframe_to_transactions on its own: a table of five columns and      *)
(* three rows, some cells missing or blank, and every assignment of the    *)
(* roles date, amount, description and type to some of the columns.        *)
(***************************************************************************)
FrameColumns == <<<<"A">>, <<"B">>, <<"C">>, <<"D">>, <<"E">>>>

\* the rows of the tables
RoleFrames == {
    [columns |-> FrameColumns,
     data |-> << <<<<"a","1">>, <<"a","2">>, Null>>,
                 <<<<"b","1">>, Null, <<"b","3">>>>,
                 <<<<" ","c","1"," ">>, <<"c","2">>, <<"c","3">>>>,
                 <<<<"d","1">>, <<" ">>, <<"d","3">>>>,
                 <<<<"e","1">>, <<"e","2">>, <<"e","3">>>> >>],
    [columns |-> FrameColumns,
     data |-> << <<<<"a","1">>, <<"a","2">>, <<"a","3">>>>,
                 <<<<"b","1">>, <<"b","2">>, <<"b","3">>>>,
                 <<Null, <<"c","2">>, <<"c","3">>>>,
                 <<<<"d","1">>, <<"d","2">>, <<"d","3">>>>,
                 <<<<"e","1">>, Null, <<" ">>>> >>] }

\* the assignments, in the order of the columns
RoleAssignments ==
    LET choices == [1..Len(FrameColumns) -> {"date", "amount", "description", "type", NoRole}]
    IN {SelectSeq([j \in 1..Len(FrameColumns) |-> [k |-> FrameColumns[j], v |-> c[j]]],
                  LAMBDA e : e.v # NoRole) : c \in choices}

\* FileParser._dataframe_to_transactions(df, detected_columns)
DataframeToTransactions ==
    /\ Calling("_dataframe_to_transactions")
    /\ ret' = _dataframe_to_transactions(arg.df, arg.detected)
    /\ pc' = "done"
    /\ UNCHANGED <<detected_columns, op, arg, generator, output>>

InitTransactions ==
    /\ generator = OFXGenerator
    /\ output = NoOutput
    /\ detected_columns = <<>>
    /\ pc = "call"
    /\ op = "_dataframe_to_transactions"
    /\ \E df \in RoleFrames, detected \in RoleAssignments :
           arg = [df |-> df, detected |-> detected]
    /\ ret = <<>>

TransactionsNext == DataframeToTransactions

SpecTransactions == InitTransactions /\ [][TransactionsNext]_vars

(***************************************************************************)
(* Claims about detect_from_headers                                        *)
(***************************************************************************)
\* The pattern groups in the precedence the claims state, with their roles
GroupPatterns == <<DATE_PATTERNS, AMOUNT_PATTERNS, TYPE_PATTERNS, DESCRIPTION_PATTERNS>>

GroupRoles == <<"date", "amount", "type", "description">>

MatchedGroups(header) ==
    {g \in 1..4 : _matches_patterns(strip(lower(header)), GroupPatterns[g])}

FirstGroup(header) ==
    CHOOSE g \in MatchedGroups(header) : \A h \in MatchedGroups(header) : g <= h

ContainsDatePattern(header) ==
    \E i \in 1..Len(DATE_PATTERNS) : Contains(lower(header), DATE_PATTERNS[i].text)

DebitText == <<"d","e","b","i","t">>

CreditText == <<"c","r","e","d","i","t">>

\* C2: a header of the amount group that contains 'debit' gets role debit,
\* one that contains 'credit' gets role credit, and the other headers of the
\* amount group ('Amount', 'Value', 'Sum', 'Total') get role amount.
C2_DebitCreditRoles ==
    Returned("detect_from_headers") =>
        \A i \in 1..Len(arg) :
            LET header == arg[i]
                hasDebit == Contains(lower(header), DebitText)
                hasCredit == Contains(lower(header), CreditText)
            IN (MatchedGroups(header) # {} /\ FirstGroup(header) = 2) =>
                   /\ DictHas(ret, header)
                   /\ (hasDebit /\ ~hasCredit) => DictGet(ret, header) = "debit"
                   /\ (hasCredit /\ ~hasDebit) => DictGet(ret, header) = "credit"
                   /\ (~hasDebit /\ ~hasCredit) => DictGet(ret, header) = "amount"

(***************************************************************************)
(* Claims about detect_from_data and validate_detected_columns             *)
(***************************************************************************)
\* the first up-to-100 non-null values of a column
Sample(series) ==
    LET present == SelectSeq(series, LAMBDA v : v # Null)
    IN [i \in 1..(IF Len(present) > SampleSize THEN SampleSize ELSE Len(present))
           |-> present[i]]

Share(series, Test(_)) == Len(SelectSeq(Sample(series), Test))

\* the role the claim gives a column, by its sample; Meets(count, total,
\* percent) says when a share meets a threshold
RoleBySample(series, Meets(_, _, _)) ==
    LET n == Len(Sample(series)) IN
    IF n = 0 THEN NoRole
    ELSE IF Meets(Share(series, IsDate), n, 70) THEN "date"
    ELSE IF Meets(Share(series, IsAmount), n, 60) THEN "amount"
    ELSE IF Meets(Share(series, IsDescription), n, 50) THEN "description"
    ELSE IF Meets(Share(series, IsType), n, 30) THEN "type"
    ELSE NoRole

DataRolesBySample(Meets(_, _, _)) ==
    Returned("detect_from_data") =>
        \A j \in 1..Len(arg.columns) :
            LET column == arg.columns[j]
                role == RoleBySample(arg.data[j], Meets)
            IN ~DictHas(detected_columns, column) =>
                   IF role = NoRole THEN ~DictHas(ret, column)
                   ELSE DictHas(ret, column) /\ DictGet(ret, column) = role

Exceeds(count, total, percent) == count * 100 > percent * total

Reaches(count, total, percent) == count * 100 >= percent * total

\* C3 as claimed: a column without a role gets the first role, in the order
\* date, amount, description, type, whose share of passing values among its
\* first up-to-100 non-null values is at least 70%, 60%, 50%, 30%; a share
\* equal to the threshold meets it.
C3_ShareAtLeastThreshold == DataRolesBySample(Reaches)

\* C3 as amended: the same, with the share strictly greater than the
\* threshold; a column with no non-null value, or exceeding no threshold,
\* gets no role, and values after the first 100 non-null ones play no part.
C3_ShareAboveThreshold == DataRolesBySample(Exceeds)

\* C3 witness: a column of more than 100 non-null values whose first 100
\* are dates to exactly 70% was analysed and did not get role date.
C3_Witness ==
    /\ Returned("detect_from_data")
    /\ \E j \in 1..Len(arg.columns) :
           /\ ~DictHas(detected_columns, arg.columns[j])
           /\ Len(SelectSeq(arg.data[j], LAMBDA v : v # Null)) > SampleSize
           /\ Share(arg.data[j], IsDate) * 100 = 70 * Len(Sample(arg.data[j]))
           /\ ~DictHas(ret, arg.columns[j])

AmountBearing == {"amount", "debit", "credit"}

\* C5: validate_detected_columns says valid exactly when the assignment has
\* a date role, a description role and an amount-bearing role (amount, debit
\* or credit); get_required_columns lists exactly date and description; the
\* missing list names the required roles that are absent and is empty
\* exactly when the assignment is valid.
C5_ValidWithAnyAmountRole ==
    Returned("validate_detected_columns") =>
        LET held == DictValues(arg)
            valid == /\ "date" \in held
                     /\ "description" \in held
                     /\ held \cap AmountBearing # {}
        IN /\ ret.is_valid = valid
           /\ {get_required_columns[i] : i \in 1..Len(get_required_columns)}
                  = {"date", "description"}
           /\ Len(get_required_columns) = 2
           /\ \A r \in {"date", "description"} :
                  (\E i \in 1..Len(ret.missing) : ret.missing[i] = r) <=> r \notin held
           /\ (ret.missing = <<>>) <=> ret.is_valid

\* C6: in every assignment the header pass or the data pass returns, no two
\* columns hold the same role.
C6_OneColumnPerRole ==
    (Returned("detect_from_headers") \/ Returned("detect_from_data")) =>
        \A i, j \in 1..Len(ret) : ret[i].v = ret[j].v => i = j

(***************************************************************************)
(* Claims about parse_file and generate_ofx                                *)
(***************************************************************************)
\* parse_file has returned or raised after it read a table and assigned roles
Parsed == Returned("parse_file") /\ ret.st.df # NoFrame

StepRan(name) == \E k \in 1..Len(ret.st.steps) : ret.st.steps[k] = name

\* C4: in CSV parsing the data pass runs exactly when the header pass gave
\* fewer than 3 roles, and every column that got a role from its header has
\* exactly that role in the final assignment.
C4_HeaderRolesKept ==
    (Parsed /\ ret.st.format = "csv") =>
        LET columns == ret.st.df.columns
            final == ret.st.detected
            from_headers == {j \in 1..Len(columns) : HeaderRole(columns[j]) # NoRole}
        IN /\ StepRan("detect_from_data") <=> Cardinality(from_headers) < 3
           /\ \A j \in from_headers :
                  /\ DictHas(final, columns[j])
                  /\ DictGet(final, columns[j]) = HeaderRole(columns[j])

\* a CSV parse in which the data pass gave a role to a column without one,
\* next to a column that has its role from the header
C4_Witness ==
    /\ Parsed /\ ret.st.format = "csv" /\ StepRan("detect_from_data")
    /\ \E j, k \in 1..Len(ret.st.df.columns) :
           /\ HeaderRole(ret.st.df.columns[j]) # NoRole
           /\ HeaderRole(ret.st.df.columns[k]) = NoRole
           /\ DictHas(ret.st.detected, ret.st.df.columns[k])

\* the text of a field has 'date' or 'transaction' in it, in any case
NamesHeader(field) ==
    Contains(lower(field), <<"d","a","t","e">>) \/ Contains(lower(field), <<"t","r","a","n","s","a","c","t","i","o","n">>)

HasMessage(message) == \E k \in 1..Len(ret.error) : ret.error[k] = message

Lacking(detected) ==
    {role \in {"date", "description"} : role \notin DictValues(detected)}
    \cup (IF DictValues(detected) \cap AmountBearing = {} THEN {"amount"} ELSE {})

\* C8: parsing a table that lacks a column of the date role, of the
\* description role or of an amount-bearing role fails on every path with an
\* error that names the missing roles, and gives no transactions.
C8_MissingRolesNamed ==
    (Parsed /\ Lacking(ret.st.detected) # {}) =>
        /\ ~ret.ok
        /\ ret.transactions = <<>>
        /\ \A role \in Lacking(ret.st.detected) : HasMessage(role)

\* the stripped text of the row's cell in the column that has the role (the
\* last such column), empty when the cell is
RoleValue(df, detected, role, i) ==
    LET with_role == {j \in 1..Len(df.columns) :
                         DictHas(detected, df.columns[j]) /\ DictGet(detected, df.columns[j]) = role}
        last == CHOOSE j \in with_role : \A k \in with_role : k <= j
    IN IF with_role = {} \/ df.data[last][i] = Null THEN <<>>
       ELSE strip(df.data[last][i])

\* the row has a date, a description and an amount
Complete(df, detected, i) ==
    /\ RoleValue(df, detected, "date", i) # <<>>
    /\ RoleValue(df, detected, "description", i) # <<>>
    /\ \E role \in AmountBearing : RoleValue(df, detected, role, i) # <<>>

\* C9: the transactions of a table are exactly its rows with a non-empty
\* value for every required role, once each and in source order, each with
\* the row's values; generate_ofx emits one STMTTRN entry per transaction it
\* is given, in the same order.
C9_RowsThenEntriesInOrder ==
    /\ (Returned("parse_file") /\ ret.ok) =>
           LET df == ret.st.df
               detected == ret.st.detected
               kept == SelectSeq([i \in 1..Rows(df) |-> i],
                                 LAMBDA i : Complete(df, detected, i))
           IN /\ Len(ret.transactions) = Len(kept)
              /\ \A k \in 1..Len(kept) :
                     \A role \in DictValues(detected) :
                         IF RoleValue(df, detected, role, kept[k]) = <<>>
                         THEN ~DictHas(ret.transactions[k], role)
                         ELSE /\ DictHas(ret.transactions[k], role)
                              /\ DictGet(ret.transactions[k], role)
                                     = RoleValue(df, detected, role, kept[k])
    /\ (Returned("generate_ofx") /\ ret.ok) =>
           /\ output.exists
           /\ Len(output.STMTTRN) = Len(arg.transactions)
           /\ \A k \in 1..Len(arg.transactions) :
                  output.STMTTRN[k].NAME
                      = _sanitize_text(DictGet(arg.transactions[k], "description"))

\* the four transactions of the five-row table whose third row has no
\* description, written as four entries
C9_Witness ==
    /\ Returned("generate_ofx") /\ ret.ok
    /\ Len(arg.transactions) = 4
    /\ Len(output.STMTTRN) = 4
    /\ \A i, j \in 1..4 : i # j => output.STMTTRN[i].NAME # output.STMTTRN[j].NAME

\* C10: when a .cols file with column names exists the input is parsed with
\* the schema's names and only the header pass runs, whatever the format
\* requested or resolved: no header-row search, no delimiter probing, no
\* fixed-width segmentation, no data pass.
C10_ColsFileOverrides ==
    (/\ Returned("parse_file")
     /\ validate_file_path(arg.file).ok
     /\ arg.format \in {"auto", "csv", "txt"}
     /\ arg.file.cols # NoFile
     /\ _parse_csv_line(strip(arg.file.cols)) # <<>>) =>
        /\ StepRan("cols_file")
        /\ \A k \in 1..Len(ret.st.steps) : ret.st.steps[k] \in {"cols_file", "detect_from_headers"}

\* C11: a file of 5 lines laid out in fixed-width columns (date, text, amount,
\* type, padded with blanks), without a .cols file, gives 4 column spans and
\* parse_file returns 5 transactions.
C11_FixedWidthFiveTransactions ==
    (Returned("parse_file") /\ arg.file.lines \in FixedWidthLines)
        => /\ Len(_detect_fixed_width_boundaries(arg.file.lines)) = 4
           /\ ret.ok
           /\ Len(ret.transactions) = 5

(***************************************************************************)
(* Claims about generate_ofx                                               *)
(***************************************************************************)
\* C12: generate_ofx called with an empty transaction list raises ValueError
\* 'No transactions to convert', leaves the destination as it was (absent
\* when it was absent, the file it held when there was one) and leaves the
\* generator's stored configuration as it was.
C12_EmptyListChangesNothing ==
    [][(Calling("generate_ofx") /\ arg.transactions = <<>>)
          => /\ ~ret'.ok
             /\ ret'.kind = "ValueError"
             /\ ret'.error = <<"No transactions to convert">>
             /\ output' = output
             /\ generator' = generator]_vars

\* an empty list was refused by a generator that had written a file with an
\* institution configured, and was given other options this time
C12_Witness ==
    /\ Returned("generate_ofx")
    /\ arg.transactions = <<>>
    /\ ~ret.ok
    /\ output.exists
    /\ generator.fi_org # NoText
    /\ arg.options # generator

\* the line opens the element tag
Opens(line, tag) == HasAt(LStrip(line), <<"<">> \o tag \o <<">">>, 1)

\* the lines of the file that open an element tag
LinesOf(tag) == {i \in 1..Len(output.lines) : Opens(output.lines[i], tag)}

\* a conversion that wrote its file
Generated == Returned("generate_ofx") /\ ret.ok

\* C13: the document holds a LEDGERBAL or AVAILBAL block only when the
\* caller supplied a balance figure.  generate_ofx takes no balance figure,
\* so no caller supplies one, and no file written has either block.
C13_NoBalanceBlockWithoutFigure ==
    Generated => /\ LinesOf(<<"L","E","D","G","E","R","B","A","L">>) = {}
                 /\ LinesOf(<<"A","V","A","I","L","B","A","L">>) = {}

\* the field of the transaction is a number above zero
Above(transaction, key) ==
    /\ DictHas(transaction, key)
    /\ float(CleanAmount(DictGet(transaction, key))).ok
    /\ float(CleanAmount(DictGet(transaction, key))).sign > 0

\* the type word of the transaction, lower-cased, when it has one of the words
TypeWord(transaction, words) ==
    /\ DictHas(transaction, "type")
    /\ lower(DictGet(transaction, "type")) \in words

\* the TRNTYPE by the first applicable rule of (a), (b), (c), (d)
RuledType(transaction) ==
    IF TypeWord(transaction, {<<"d","e","b","i","t">>, <<"w","i","t","h","d","r","a","w","a","l">>, <<"p","a","y","m","e","n","t">>, <<"p","u","r","c","h","a","s","e">>, <<"f","e","e">>})
    THEN <<"D","E","B","I","T">>
    ELSE IF TypeWord(transaction, {<<"c","r","e","d","i","t">>, <<"d","e","p","o","s","i","t">>, <<"r","e","f","u","n","d">>, <<"i","n","t","e","r","e","s","t">>})
    THEN <<"C","R","E","D","I","T">>
    ELSE IF TypeWord(transaction, {<<"t","r","a","n","s","f","e","r">>}) THEN <<"X","F","E","R">>
    ELSE IF Above(transaction, "debit") THEN <<"D","E","B","I","T">>
    ELSE IF Above(transaction, "credit") THEN <<"C","R","E","D","I","T">>
    ELSE IF /\ DictHas(transaction, "amount")
            /\ float(CleanAmount(DictGet(transaction, "amount"))).ok
         THEN IF float(CleanAmount(DictGet(transaction, "amount"))).sign < 0
              THEN <<"D","E","B","I","T">> ELSE <<"C","R","E","D","I","T">>
    ELSE <<"D","E","B","I","T">>

\* C14: the TRNTYPE of each transaction is given by the first applicable rule:
\* (a) the lower-cased type word when it is in the dictionary, (b) DEBIT when
\* the debit field is above zero, CREDIT when the credit field is, (c) DEBIT
\* when the amount field is negative and CREDIT otherwise, (d) DEBIT; a type
\* word outside the dictionary falls through to (b).
C14_TypeByFirstApplicableRule ==
    Generated =>
        \A i \in 1..Len(arg.transactions) :
            output.STMTTRN[i].TRNTYPE = RuledType(arg.transactions[i])

\* the amount text without currency symbols, whitespace and thousands
\* separators
Bare(amount) ==
    SelectSeq(amount, LAMBDA c : c \notin CurrencySymbols /\ ~IsSpace(c) /\ c # ",")

\* C15: the amount written is the amount cell without currency symbols,
\* whitespace and thousands separators, with '.00' appended only when no
\* decimal point remains ('100.00' -> '100.00', '$1,234.50' -> '1234.50',
\* '100' -> '100.00'), and normalizing the amount written gives it again.
C15_NormalizeAmountIdempotent ==
    Generated =>
        \A i \in 1..Len(arg.transactions) :
            LET x == amount_for_id(arg.transactions[i])
                written == output.STMTTRN[i].TRNAMT
            IN /\ written = IF \E k \in 1..Len(Bare(x)) : Bare(x)[k] = "."
                            THEN Bare(x) ELSE Bare(x) \o <<".","0","0">>
               /\ _normalize_amount(written) = written
               /\ x = <<"1","0","0",".","0","0">> => written = <<"1","0","0",".","0","0">>
               /\ x = <<"$","1",",","2","3","4",".","5","0">> => written = <<"1","2","3","4",".","5","0">>
               /\ x = <<"1","0","0">> => written = <<"1","0","0",".","0","0">>

\* a file was written for a debit cell of '$1,234.50'
C15_Witness ==
    /\ Generated
    /\ \E i \in 1..Len(arg.transactions) :
           /\ amount_for_id(arg.transactions[i]) = <<"$","1",",","2","3","4",".","5","0">>
           /\ output.STMTTRN[i].TRNAMT = <<"1","2","3","4",".","5","0">>

\* the (date, chosen amount, description) triple of a transaction
Triple(transaction) ==
    <<IF DictHas(transaction, "date") THEN DictGet(transaction, "date") ELSE NoText,
      amount_for_id(transaction),
      IF DictHas(transaction, "description") THEN DictGet(transaction, "description")
      ELSE NoText>>

DecimalDigits == {"0", "1", "2", "3", "4", "5", "6", "7", "8", "9"}

\* C16: the FITID of a transaction is a function of its (date, chosen
\* amount, description) triple only.  In every generation each FITID written
\* is 8 decimal digits and transactions of the same triple get the same
\* FITID wherever they are in the list and whatever else they hold; and when
\* the file replaced was written earlier from the same transactions in the
\* opposite order, under whatever options and by whatever generator, each
\* transaction gets the FITID a transaction of its triple got there.
C16_FitIdOfTripleOnly ==
    [][(Calling("generate_ofx") /\ arg.transactions # <<>>)
          => LET now == arg.transactions
                 before == Reverse(arg.transactions)
             IN /\ \A i \in 1..Len(now) :
                       /\ Len(output'.STMTTRN[i].FITID) = 8
                       /\ \A k \in 1..8 : output'.STMTTRN[i].FITID[k] \in DecimalDigits
                /\ \A i, j \in 1..Len(now) :
                       Triple(now[i]) = Triple(now[j])
                           => output'.STMTTRN[i].FITID = output'.STMTTRN[j].FITID
                /\ (arg.now = Clock[2] /\ output.exists)
                       => \A i, j \in 1..Len(now) :
                              Triple(now[i]) = Triple(before[j])
                                  => output'.STMTTRN[i].FITID = output.STMTTRN[j].FITID]_vars

\* a second file was written, later and with an institution configured, from
\* two transactions of one triple and different type words, one of them
\* dated and of an identifier that is not all zeros
C16_Witness ==
    /\ Generated
    /\ arg.now = Clock[2]
    /\ generator.fi_org # NoText
    /\ Len(arg.transactions) = 2
    /\ Triple(arg.transactions[1]) = Triple(arg.transactions[2])
    /\ arg.transactions[1] # arg.transactions[2]
    /\ output.STMTTRN[1].FITID = output.STMTTRN[2].FITID
    /\ output.STMTTRN[1].FITID # <<"0","0","0","0","0","0","0","0">>

\* the text is digits only
AllDigits(text) == \A k \in 1..Len(text) : text[k] \in DecimalDigits

\* C17: a date cell that parses under none of the generator's formats is
\* written as the current timestamp, an amount cell that is no number is
\* written as '0.00', generation does not abort, and every DTPOSTED written
\* is 14 digits.
C17_FallbacksForUnparsableCells ==
    (Returned("generate_ofx") /\ arg.transactions # <<>>) =>
        /\ ret.ok
        /\ \A i \in 1..Len(arg.transactions) :
               LET transaction == arg.transactions[i]
                   entry == output.STMTTRN[i]
               IN /\ DictHas(transaction, "date")
                      => /\ Len(entry.DTPOSTED) = 14
                         /\ AllDigits(entry.DTPOSTED)
                         /\ ~_parse_date(DictGet(transaction, "date")).ok
                                => entry.DTPOSTED = Timestamp(arg.now)
                  /\ (/\ DictHas(transaction, "amount")
                      /\ ~DictHas(transaction, "debit")
                      /\ ~DictHas(transaction, "credit")
                      /\ ~float(CleanAmount(DictGet(transaction, "amount"))).ok)
                         => entry.TRNAMT = <<"0",".","0","0">>

Entities == {<<"&","a","m","p",";">>, <<"&","l","t",";">>, <<"&","g","t",";">>, <<"&","q","u","o","t",";">>, <<"&","a","p","o","s",";">>}

\* C18: the description written is at most 255 characters, holds no raw
\* < > " ' and every '&' in it starts a complete entity: the cut of a long
\* text never leaves a part of an entity.
C18_NameHoldsCompleteEntities ==
    Generated =>
        \A i \in 1..Len(arg.transactions) :
            DictHas(arg.transactions[i], "description")
                => LET name == output.STMTTRN[i].NAME
                   IN /\ Len(name) <= 255
                      /\ \A k \in 1..Len(name) :
                             /\ name[k] \notin {"<", ">", "\"", "'"}
                             /\ name[k] = "&" => \E e \in Entities : HasAt(name, e, k)

PreambleFields == <<<<"O","F","X","H","E","A","D","E","R">>, <<"D","A","T","A">>, <<"V","E","R","S","I","O","N">>, <<"S","E","C","U","R","I","T","Y">>, <<"E","N","C","O","D","I","N","G">>,
                    <<"C","H","A","R","S","E","T">>, <<"C","O","M","P","R","E","S","S","I","O","N">>, <<"O","L","D","F","I","L","E","U","I","D">>, <<"N","E","W","F","I","L","E","U","I","D">>>>

\* the elements below element other than the preamble fields, parents before
\* children and in document order, each with its nesting level
RECURSIVE Outline(_, _)
Outline(element, level) ==
    Concat([i \in 1..Len(element.children) |->
        IF \E f \in 1..Len(PreambleFields) : PreambleFields[f] = element.children[i].tag
        THEN <<>>
        ELSE <<[level |-> level, element |-> element.children[i]]>>
             \o Outline(element.children[i], level + 1)])

\* the line of an element: two spaces per level, the tag, and the value of a
\* leaf
LineOfElement(level, element) ==
    [k \in 1..(2 * level) |-> " "] \o <<"<">> \o element.tag \o <<">">>
    \o (IF element.children = <<>> /\ element.text # NoText THEN element.text ELSE <<>>)

\* C19: the file is nine preamble lines 'FIELD:value', a blank line, the
\* line '<OFX>', one line for each element of the document below the root
\* -- '<TAG>value' for a leaf, '<TAG>' for a container, which its children
\* follow, two spaces of indentation per nesting level -- and the line
\* '</OFX>'; no other line holds a closing tag and no line of the body
\* repeats a preamble field.
C19_FileIsPreambleThenOutline ==
    Generated =>
        LET lines == output.lines
            body == Outline(output.OFX, 1)
        IN /\ Len(lines) = 11 + Len(body) + 1
           /\ \A f \in 1..9 :
                  /\ HasAt(lines[f], PreambleFields[f] \o <<":">>, 1)
                  /\ Len(lines[f]) > Len(PreambleFields[f]) + 1
           /\ lines[3] = <<"V","E","R","S","I","O","N",":">> \o generator.ofx_version
           /\ lines[10] = <<>>
           /\ lines[11] = <<"<","O","F","X",">">>
           /\ \A k \in 1..Len(body) :
                  /\ lines[11 + k] = LineOfElement(body[k].level, body[k].element)
                  /\ \A f \in 1..9 : ~Opens(lines[11 + k], PreambleFields[f])
           /\ lines[Len(lines)] = <<"<","/","O","F","X",">">>
           /\ \A k \in 1..(Len(lines) - 1) : ~Contains(lines[k], <<"<","/">>)

\* a file was written with an institution in its sign-on block, four levels
\* down, and two transactions, whose fields are six levels down
C19_Witness ==
    /\ Generated
    /\ Len(arg.transactions) = 2
    /\ \E k \in 1..Len(output.lines) : output.lines[k] = <<" "," "," "," "," "," "," "," ","<","O","R","G",">","B","a","n","k">>
    /\ \E k \in 1..Len(output.lines) : output.lines[k] = <<" "," "," "," "," "," "," "," "," "," ","<","S","T","M","T","T","R","N",">">>
    /\ \E k \in 1..Len(output.lines) : output.lines[k] = <<" "," "," "," "," "," "," "," "," "," "," "," ","<","T","R","N","T","Y","P","E",">","X","F","E","R">>

\* the value of the one line of the file that opens tag
ValueOf(lines, tag) ==
    LET line == LStrip(lines[CHOOSE k \in 1..Len(lines) : Opens(lines[k], tag)])
    IN SubSeq(line, Len(tag) + 3, Len(line))

\* a YYYYMMDDHHMMSS value is not after another
NotAfter(a, b) ==
    \/ NumberOf(SubSeq(a, 1, 8), 0) < NumberOf(SubSeq(b, 1, 8), 0)
    \/ /\ SubSeq(a, 1, 8) = SubSeq(b, 1, 8)
       /\ NumberOf(SubSeq(a, 9, 14), 0) <= NumberOf(SubSeq(b, 9, 14), 0)

\* the transactions whose date parses
Dated(transactions) ==
    {i \in 1..Len(transactions) :
        /\ DictHas(transactions[i], "date")
        /\ _parse_date(DictGet(transactions[i], "date")).ok}

\* DTSTART and DTEND of the file are the earliest and the latest DTPOSTED of
\* the transactions whose date parses, or the day of the clock when none does
RangeOfDates(lines, entries, transactions, clock) ==
    LET start == ValueOf(lines, <<"D","T","S","T","A","R","T">>)
        end == ValueOf(lines, <<"D","T","E","N","D">>)
        dated == Dated(transactions)
    IN IF dated = {}
       THEN /\ start = strftime(clock, <<"%Y","%m","%d">>) \o <<"1","2","0","0","0","0">>
            /\ end = start
       ELSE /\ \E i \in dated : entries[i].DTPOSTED = start
            /\ \E i \in dated : entries[i].DTPOSTED = end
            /\ \A i \in dated : /\ NotAfter(start, entries[i].DTPOSTED)
                                /\ NotAfter(entries[i].DTPOSTED, end)

\* C20: in every file written DTSTART and DTEND are the earliest and the
\* latest of the transactions' parsed dates in the document date format, so
\* that DTSTART <= DTPOSTED <= DTEND for each transaction whose date parses,
\* and both are the current date when no date parses; and a file written
\* from the transactions of the file it replaces, in another order, has the
\* DTSTART and DTEND of that file.
C20_DateRangeIsEarliestToLatest ==
    [][(Calling("generate_ofx") /\ arg.transactions # <<>>)
          => /\ RangeOfDates(output'.lines, output'.STMTTRN, arg.transactions, arg.now)
             /\ (/\ arg.now = Clock[2]
                 /\ output.exists
                 /\ Dated(arg.transactions) # {})
                    => /\ ValueOf(output'.lines, <<"D","T","S","T","A","R","T">>) = ValueOf(output.lines, <<"D","T","S","T","A","R","T">>)
                       /\ ValueOf(output'.lines, <<"D","T","E","N","D">>) = ValueOf(output.lines, <<"D","T","E","N","D">>)]_vars

\* a second file was written from two transactions of different days, the
\* later one first, in place of a file written from them in the other order
C20_Witness ==
    /\ Generated
    /\ arg.now = Clock[2]
    /\ Len(arg.transactions) = 2
    /\ Dated(arg.transactions) = {1, 2}
    /\ ValueOf(output.lines, <<"D","T","S","T","A","R","T">>) = output.STMTTRN[2].DTPOSTED
    /\ ValueOf(output.lines, <<"D","T","E","N","D">>) = output.STMTTRN[1].DTPOSTED
    /\ output.STMTTRN[1].DTPOSTED # output.STMTTRN[2].DTPOSTED

(***************************************************************************)
(* Claims about conversions in a folder                                    *)
(***************************************************************************)
\* the paths of the files of a folder
Paths(folder) == {f.path : f \in folder}

\* <stem>.ofx beside the input file for i = 0, <stem>_<i>.ofx otherwise
Named(file, i) ==
    file.dir \o <<"/">> \o file.stem
    \o (IF i = 0 THEN <<>> ELSE <<"_">> \o Decimal(i)) \o <<".","o","f","x">>

\* conversion c takes the step that leaves from
Leaves(c, from) == pc[c] = from /\ pc'[c] # from

\* C21: get_output_filename gives the input path with the extension .ofx
\* when no file has that name, and otherwise <stem>_<i>.ofx for the least i
\* of 1..99 that no file has (test_1.ofx beside test.ofx, test_4.ofx beside
\* test.ofx and test_1 to test_3); it raises ValueError when the 99 names
\* are taken; the path it gives is the path of no file when it returns, and
\* the call leaves the folder as it was.
C21_OutputNameIsFirstFree ==
    [][\A c \in Conversions :
          (Leaves(c, "output") /\ arg[c].output = NoPath /\ arg[c].file.stem # <<>>)
              => LET file == arg[c].file
                     free == {i \in 0..99 : Named(file, i) \notin Paths(output)}
                 IN /\ output' = output
                    /\ IF 0 \in free
                       THEN ret'[c].ok /\ PathText(ret'[c].path) = Named(file, 0)
                       ELSE IF free = {}
                       THEN ~ret'[c].ok /\ ret'[c].kind = "ValueError"
                       ELSE /\ ret'[c].ok
                            /\ \E i \in free : /\ PathText(ret'[c].path) = Named(file, i)
                                               /\ \A j \in free : i <= j
                    /\ ret'[c].ok => PathText(ret'[c].path) \notin Paths(output')
                    /\ Paths(output) = {Named(file, 0)}
                           => PathText(ret'[c].path) = Named(file, 1)
                    /\ Paths(output) = {Named(file, i) : i \in 0..3}
                           => PathText(ret'[c].path) = Named(file, 4)]_vars

\* a conversion was given the name test_4.ofx beside test.ofx and test_1 to
\* test_3
C21_Witness ==
    \E c \in Conversions :
        /\ pc[c] = "parse"
        /\ arg[c].output = NoPath
        /\ ret[c].path = TestOfx(4)
        /\ Paths(output) = {PathText(TestOfx(i)) : i \in 0..3}

\* C22: conversions run in parallel are safe; in particular two conversions
\* that derived their output names never wrote the same path, and the file a
\* finished conversion wrote under a derived name is still the one it wrote.
C22_ParallelConversionsKeepApart ==
    \A c, d \in Conversions :
        (/\ c # d
         /\ pc[c] = "done" /\ arg[c].output = NoPath
         /\ pc[d] = "done" /\ arg[d].output = NoPath)
            => /\ ret[c].path # ret[d].path
               /\ \E f \in output : f.path = PathText(ret[c].path) /\ f.by = c


(***************************************************************************)
(* Claims about calls on one instance                                      *)
(***************************************************************************)
\* C23: no state is shared across calls: a detect_from_data on a detector
\* that ran detect_from_headers before, for another table, returns what the
\* same call returns on a freshly constructed detector.
C23_CallsShareNoState ==
    Returned("detect_from_data") => ret = detect_from_data(arg, <<>>)


(***************************************************************************)
(* Claims about the value tests                                            *)
(***************************************************************************)
\* the trimmed value without its currency symbols
Cleaned(value) == RemoveChars(strip(value), CurrencySymbols)

\* what is left of v after its groups of a comma and three digits
RECURSIVE AfterGroups(_)
AfterGroups(v) ==
    IF Len(v) >= 4 /\ v[1] = "," /\ v[2] \in Digits /\ v[3] \in Digits /\ v[4] \in Digits
    THEN AfterGroups(Drop(v, 4))
    ELSE v

\* a point and exactly two digits
TwoDigitFraction(v) == Len(v) = 3 /\ v[1] = "." /\ v[2] \in Digits /\ v[3] \in Digits

\* one to three digits, groups of three, and optionally a two-digit fraction
GroupedDigits(u) ==
    LET n == DigitRun(u)
        v == AfterGroups(Drop(u, n))
    IN n \in 1..3 /\ (v = <<>> \/ TwoDigitFraction(v))

\* digits, and optionally a two-digit fraction
DigitsWithCents(u) ==
    LET n == DigitRun(u)
        v == Drop(u, n)
    IN n >= 1 /\ (v = <<>> \/ TwoDigitFraction(v))

\* digits, and optionally a point and any number of digits
DigitsWithFraction(u) ==
    LET n == DigitRun(u)
        v == Drop(u, n)
    IN n >= 1 /\ (v = <<>> \/ (v[1] = "." /\ DigitRun(Tail(v)) = Len(v) - 1))

\* t without one final newline
BeforeFinalNewline(t) ==
    IF t # <<>> /\ t[Len(t)] = "\n" THEN SubSeq(t, 1, Len(t) - 1) ELSE t

\* C24 as claimed: the amount test succeeds exactly when the cleaned value
\* is an optional minus, digits with optional thousands groups of three,
\* and optionally a fraction of exactly two digits.
C24_AmountHasTwoDigitFraction ==
    Returned("_is_amount_value") =>
        LET u == DropMinus(Cleaned(arg))
        IN ret <=> (DigitsWithCents(u) \/ GroupedDigits(u))

\* C24 as amended: the amount test succeeds exactly when the trimmed value
\* without its currency symbols, up to one final newline, is an optional
\* minus followed by either digits and optionally a point and any number
\* of digits, or one to three digits, groups of a comma and three digits,
\* and optionally a point and exactly two digits.
C24_AmountHasAnyFraction ==
    Returned("_is_amount_value") =>
        LET u == DropMinus(BeforeFinalNewline(Cleaned(arg)))
        IN ret <=> (DigitsWithFraction(u) \/ GroupedDigits(u))

\* C24 witness: '100.5', with a fraction of one digit, passed the test.
C24_Witness ==
    /\ Returned("_is_amount_value")
    /\ arg = <<"1","0","0",".","5">>
    /\ ret = TRUE

\* the whole text has the form of the pattern
WholeForm(pattern, text) == Len(text) = Len(pattern) /\ re_match(pattern, text)

\* C25: the date test succeeds exactly when the whole trimmed value has one
\* of the structural forms or parses under one of the detector's formats;
\* text that merely begins with digits fails.
C25_DateIsWholeValue ==
    Returned("_is_date_value") =>
        (ret <=> \/ \E i \in 1..Len(date_patterns) : WholeForm(date_patterns[i], strip(arg))
                 \/ \E i \in 1..Len(DATE_FORMATS) : strptime(strip(arg), DATE_FORMATS[i]).ok)

\* has an uppercase and a lowercase letter, or a punctuation character
LooksLikeText(value) ==
    \/ /\ \E i \in 1..Len(value) : IsUpper(value[i])
       /\ \E i \in 1..Len(value) : IsLower(value[i])
    \/ \E i \in 1..Len(value) : value[i] \in Punctuation

\* the description test by the length n of the value
DescriptionByLength(n) ==
    Returned("_is_description_value") =>
        IF n < 3 \/ _is_amount_value(arg) \/ _is_date_value(arg)
        THEN ret = FALSE
        ELSE ret <=> LooksLikeText(arg)

\* C26 as claimed: the description test fails for a value shorter than 3
\* characters and for a value passing the amount or the date test; any
\* other value passes exactly when it has mixed case or punctuation.
C26_DescriptionOfThreeCharacters == DescriptionByLength(Len(arg))

\* C26 as amended: the same, with the length taken of the trimmed value: a
\* value with fewer than 3 characters between its leading and trailing
\* whitespace fails.
C26_DescriptionOfThreeTrimmedCharacters == DescriptionByLength(Len(strip(arg)))

\* C26 witness: 'Ab ' has 3 characters, 2 of them after trimming, and mixed
\* case; it failed the test.
C26_Witness ==
    /\ Returned("_is_description_value")
    /\ arg = <<"A","b"," ">>
    /\ ret = FALSE


(***************************************************************************)
(* Claims about the fixed-width boundaries                                 *)
(***************************************************************************)
\* the offsets, from 1 on, at which every line has a space or has ended
AlignedOffsets(lines) ==
    {i \in 1..(LineLength(lines) - 1) :
        \A k \in 1..Len(lines) : Len(lines[k]) <= i \/ lines[k][i + 1] = " "}

\* the offsets inside the spans
SpanOffsets(boundaries) ==
    {i \in 0..60 : \E j \in 1..Len(boundaries) : boundaries[j][1] <= i /\ i < boundaries[j][2]}

\* C27: given two or more sample lines, the boundaries reported are the
\* offsets at which every line has a space or is shorter, collapsed into
\* spans; the split of the first line at two spaces is used only when there
\* is no such offset; fewer than two lines give no boundaries.
C27_BoundariesAtAlignedOffsets ==
    Returned("_detect_fixed_width_boundaries") =>
        IF Len(arg) < 2 THEN ret = <<>>
        ELSE AlignedOffsets(arg) # {} => SpanOffsets(ret) = AlignedOffsets(arg)


(***************************************************************************)
(* Claims about the delimiters of a text file                              *)
(***************************************************************************)
\* comma, tab, pipe, semicolon
CandidateOrder == <<",", "\t", "|", ";">>

\* what the attempt with a delimiter comes to
Attempt(lines, delimiter) ==
    LET read == read_csv(lines, delimiter, NoHeader, NoNames) IN
    IF ~read.ok THEN [outcome |-> "raised", transactions |-> <<>>]
    ELSE IF empty(read.df) THEN [outcome |-> "empty", transactions |-> <<>>]
    ELSE LET detected == detect_from_data(read.df, <<>>) IN
         IF validate_detected_columns(detected).is_valid
         THEN [outcome |-> "valid",
               transactions |-> _dataframe_to_transactions(read.df, detected)]
         ELSE [outcome |-> "invalid", transactions |-> <<>>]

\* the candidates, by their place in the order, whose attempt validates
Validating(lines) ==
    {i \in 1..Len(CandidateOrder) : Attempt(lines, CandidateOrder[i]).outcome = "valid"}

\* the number of attempts made
Attempts == Len(SelectSeq(ret.st.steps, LAMBDA name : name = "delimiter"))

\* C28: for a text file without a schema file, the delimiters are tried in
\* the order comma, tab, pipe, semicolon; the result is the transaction
\* list of the first one whose assignment validates, no later one is tried,
\* an attempt that raises is skipped, and fixed-width segmentation is tried
\* only after all four failed to validate.
C28_FirstValidatingDelimiter ==
    (Returned("parse_file") /\ StepRan("delimiter")) =>
        LET valid == Validating(arg.file.lines) IN
        IF valid = {}
        THEN Attempts = Len(CandidateOrder) /\ StepRan("fixed_width")
        ELSE LET first == CHOOSE i \in valid : \A j \in valid : i <= j IN
             /\ ret.ok
             /\ ret.transactions = Attempt(arg.file.lines, CandidateOrder[first]).transactions
             /\ Attempts = first
             /\ ~StepRan("fixed_width")

\* C28 witness: the attempt with the comma raised and the one with the tab
\* did not validate; the pipe was the third and last tried, and the result
\* is its list of two transactions.
C28_Witness ==
    /\ Returned("parse_file")
    /\ arg.file.lines = ragged_lines
    /\ Attempt(ragged_lines, ",").outcome = "raised"
    /\ Attempts = 3
    /\ ret.ok
    /\ Len(ret.transactions) = 2


\* C29: a conversion that ends in an error never creates or modifies the
\* destination file: the folder changes only in the generate step of a
\* conversion that has a non-empty transaction list and succeeds, and only
\* at that conversion's output path.
C29_FailedConversionLeavesDestination ==
    [][/\ \A c \in Conversions : (pc[c] # "failed" /\ pc'[c] = "failed") => output' = output
       /\ output' # output =>
              \E c \in Conversions :
                  /\ pc[c] = "generate" /\ pc'[c] = "done"
                  /\ ret[c].transactions # <<>>
                  /\ \A f \in (output \ output') \cup (output' \ output) :
                         f.path = PathText(ret[c].path)]_vars

\* C29 witness: a conversion told to write to test.ofx, a file that was
\* there before, parsed a table whose only row was dropped and failed in
\* generate_ofx; the file is the old one.
C29_Witness ==
    /\ pc[1] = "failed"
    /\ arg[1].output = TestOfx(0)
    /\ ret[1].error = <<"No transactions to convert">>
    /\ Old(TestOfx(0)) \in output


(***************************************************************************)
(* Claims about columns with the same role                                 *)
(***************************************************************************)
\* the roles the assignment gives
RolesGiven(detected) == {detected[k].v : k \in 1..Len(detected)}

\* the roles it gives to several columns
RolesGivenTwice(detected) ==
    {r \in RolesGiven(detected) : Cardinality({k \in 1..Len(detected) : detected[k].v = r}) > 1}

\* the last column, in assignment order, with the role
LastColumn(detected, r) ==
    LET places == {k \in 1..Len(detected) : detected[k].v = r}
    IN detected[CHOOSE k \in places : \A m \in places : m <= k].k

\* the value row i has for the role, or none: the cell of the last column
ValueAt(df, detected, r, i) ==
    LET cell == Column(df, LastColumn(detected, r))[i]
    IN IF cell = Null \/ strip(cell) = <<>> THEN Null ELSE strip(cell)

\* row i has a value for every required role
KeptRow(df, detected, i) ==
    \A f \in 1..Len(get_required_columns) :
        /\ get_required_columns[f] \in RolesGiven(detected)
        /\ ValueAt(df, detected, get_required_columns[f], i) # Null

\* the transactions are those of the kept rows, with the values of the last
\* columns only, and a row is dropped when the last column of one of the
\* roles named is empty
LastColumnRule(roles) ==
    Returned("_dataframe_to_transactions") =>
        LET df == arg.df
            detected == arg.detected
            kept == SelectSeq([i \in 1..Rows(df) |-> i], LAMBDA i : KeptRow(df, detected, i))
        IN /\ Len(ret) = Len(kept)
           /\ \A n \in 1..Len(kept) :
                  /\ \A r \in RolesGiven(detected) :
                         IF ValueAt(df, detected, r, kept[n]) = Null
                         THEN ~DictHas(ret[n], r)
                         ELSE /\ DictHas(ret[n], r)
                              /\ DictGet(ret[n], r) = ValueAt(df, detected, r, kept[n])
                  /\ \A e \in 1..Len(ret[n]) : ret[n][e].k \in RolesGiven(detected)
           /\ \A r \in RolesGivenTwice(detected) \cap roles :
                  \A i \in 1..Rows(df) :
                      ValueAt(df, detected, r, i) = Null
                          => \A n \in 1..Len(kept) : kept[n] # i

\* C30 as claimed: when several columns have the same role, the value of
\* the role comes in every row from the last such column in assignment
\* order, the other columns' values appear nowhere, and a row whose last
\* such column is empty is dropped, whatever the role.
C30_LastColumnOfAnyRole == LastColumnRule({"date", "amount", "description", "type"})

\* C30 as amended: the same, with the row dropped when the role is one of
\* the required ones, date, amount and description; a row whose last column
\* of another role is empty is kept without that field.
C30_LastColumnOfRequiredRole == LastColumnRule({"date", "amount", "description"})

\* C30 witness: columns A and B both have role date; the second row, with a
\* date in A and none in B, was dropped, and the first transaction has B's
\* date.
C30_Witness ==
    /\ Returned("_dataframe_to_transactions")
    /\ arg.df.data[2][2] = Null
    /\ arg.detected = << [k |-> <<"A">>, v |-> "date"], [k |-> <<"B">>, v |-> "date"],
                         [k |-> <<"C">>, v |-> "amount"], [k |-> <<"E">>, v |-> "description"] >>
    /\ Len(ret) = 2
    /\ DictGet(ret[1], "date") = <<"b","1">>
    /\ DictGet(ret[2], "date") = <<"b","3">>

====
